---- MODULE Spec2Model ----
(***************************************************************************)
(* gardentrack: the statistics engine (DataManager, static/js/ui.js) and   *)
(* the bottle view that feeds the consumption chart (BottleManager,        *)
(* static/js/bottles.js; ChartManager, static/js/chartManager.js).         *)
(*                                                                         *)
(* JavaScript numbers are modelled as exact rationals n/d (d > 0) plus the *)
(* three non-finite values NaN (0/0), Infinity (1/0) and -Infinity (-1/0). *)
(* Weights are multiples of a quarter kilogram, which are exact in binary  *)
(* floating point, so every difference of weights is exact as well.        *)
(* Date values are local wall-clock times; their time value is counted in  *)
(* milliseconds from ModelEpoch instead of 1970-01-01 (the code only ever  *)
(* subtracts time values, so the origin does not matter).                  *)
(***************************************************************************)
EXTENDS Integers, Sequences, FiniteSets, TLC

\* ------------------------------------------------------------------------
\* Bounds of the model
\* ------------------------------------------------------------------------
MaxOps == 2          \* longest operations list of an item
MaxWeight == 3       \* largest weight, in quarter kilograms
MaxBottles == 2      \* bottles the backend can hold
MaxPending == 2      \* getBottles requests that can be in flight at once
MaxDevices == 2      \* devices the backend returns
MaxRequests == 2     \* transport calls that can be under way at once
MaxCharts == 4       \* Chart objects createLineChart and createBarChart construct
MaxEvents == 6       \* calls of showConfirmModal, clicks and requests in a row

\* ------------------------------------------------------------------------
\* JavaScript numbers
\* ------------------------------------------------------------------------
Abs(x) == IF x < 0 THEN -x ELSE x
Sign(x) == IF x < 0 THEN -1 ELSE IF x > 0 THEN 1 ELSE 0

RECURSIVE GCD(_, _)
GCD(a, b) == IF b = 0 THEN a ELSE GCD(b, a % b)

Num(n, d) ==
    IF d = 0 THEN [n |-> Sign(n), d |-> 0]
    ELSE LET g == GCD(Abs(n), Abs(d))
         IN  [n |-> Sign(n) * Sign(d) * (Abs(n) \div g), d |-> Abs(d) \div g]

Number(i) == Num(i, 1)
NaN == [n |-> 0, d |-> 0]
Infinity == [n |-> 1, d |-> 0]
IsNaN(x) == x.d = 0 /\ x.n = 0
IsFinite(x) == x.d # 0

NumNeg(a) == [n |-> -a.n, d |-> a.d]
NumAdd(a, b) ==
    IF IsNaN(a) \/ IsNaN(b) THEN NaN
    ELSE IF a.d = 0 /\ b.d = 0 THEN (IF a.n = b.n THEN a ELSE NaN)
    ELSE IF a.d = 0 THEN a
    ELSE IF b.d = 0 THEN b
    ELSE Num(a.n * b.d + b.n * a.d, a.d * b.d)
NumSub(a, b) == NumAdd(a, NumNeg(b))
NumMul(a, b) == Num(a.n * b.n, a.d * b.d)
NumDiv(a, b) == Num(a.n * b.d, a.d * b.n)
\* a > b; false when either side is NaN
NumGT(a, b) ==
    /\ ~IsNaN(a) /\ ~IsNaN(b)
    /\ LET diff == NumSub(a, b) IN ~IsNaN(diff) /\ diff.n > 0
NumGE(a, b) ==
    /\ ~IsNaN(a) /\ ~IsNaN(b)
    /\ (a = b \/ NumGT(a, b))
\* a === b on numbers: NaN is not equal to itself
NumEq(a, b) == ~IsNaN(a) /\ ~IsNaN(b) /\ a = b

\* a weight of w quarter kilograms, as the number of kilograms
Kg(w) == Num(w, 4)

\* Number.prototype.toFixed(1): the decimal string with one fraction digit
\* that is nearest to x, the one further from zero on a tie; the sign is kept
\* even when the digits are all zero ("-0.0").
toFixed1(x) ==
    IF IsNaN(x) THEN [special |-> "NaN", neg |-> FALSE, int |-> 0, frac |-> 0]
    ELSE IF x.d = 0 THEN [special |-> "Infinity", neg |-> x.n < 0, int |-> 0, frac |-> 0]
    ELSE LET m == (2 * 10 * Abs(x.n) + x.d) \div (2 * x.d)
         IN  [special |-> "", neg |-> x.n < 0, int |-> m \div 10, frac |-> m % 10]

\* Number.prototype.toFixed(2), rounded like toFixed(1)
toFixed2(x) ==
    IF IsNaN(x) THEN [special |-> "NaN", neg |-> FALSE, int |-> 0, frac |-> 0]
    ELSE IF x.d = 0 THEN [special |-> "Infinity", neg |-> x.n < 0, int |-> 0, frac |-> 0]
    ELSE LET m == (2 * 100 * Abs(x.n) + x.d) \div (2 * x.d)
         IN  [special |-> "", neg |-> x.n < 0, int |-> m \div 100, frac |-> m % 100]

\* parseFloat of a string produced by toFixed(2)
parseFloat2(s) ==
    IF s.special = "NaN" THEN NaN
    ELSE IF s.special = "Infinity" THEN (IF s.neg THEN NumNeg(Infinity) ELSE Infinity)
    ELSE LET mag == Num(s.int * 100 + s.frac, 100)
         IN  IF s.neg THEN NumNeg(mag) ELSE mag

\* Math.ceil
MathCeil(x) ==
    IF x.d = 0 THEN x
    ELSE Number(-((-x.n) \div x.d))

\* Math.max(...values): -Infinity for no values, NaN if any value is NaN
RECURSIVE MathMax(_)
MathMax(values) ==
    IF values = <<>> THEN NumNeg(Infinity)
    ELSE LET rest == MathMax(Tail(values))
             v == Head(values)
         IN  IF IsNaN(v) \/ IsNaN(rest) THEN NaN
             ELSE IF NumGT(v, rest) THEN v ELSE rest

\* a <= b; false when either side is NaN
NumLE(a, b) == NumGE(b, a)

\* parseFloat of a string produced by toFixed(1)
parseFloat(s) ==
    IF s.special = "NaN" THEN NaN
    ELSE IF s.special = "Infinity" THEN (IF s.neg THEN NumNeg(Infinity) ELSE Infinity)
    ELSE LET mag == Num(s.int * 10 + s.frac, 10)
         IN  IF s.neg THEN NumNeg(mag) ELSE mag

\* ------------------------------------------------------------------------
\* Dates
\* ------------------------------------------------------------------------
MsPerMinute == 60000

\* a timestamp with seconds, and one on a whole minute
TimeS(y, mo, d, h, mi, sec) == [y |-> y, mo |-> mo, d |-> d, h |-> h, mi |-> mi, s |-> sec]
Time(y, mo, d, h, mi) == TimeS(y, mo, d, h, mi, 0)
\* the value of a field that the object does not have
undefined == Time(0, 0, 0, 0, 0)
ModelEpoch == Time(2023, 12, 25, 0, 0)

\* days since 0000-03-01 of a civil date (proleptic Gregorian calendar)
DayNumber(t) ==
    LET yy == IF t.mo <= 2 THEN t.y - 1 ELSE t.y
        mm == IF t.mo <= 2 THEN t.mo + 9 ELSE t.mo - 3
        doy == (153 * mm + 2) \div 5 + t.d - 1
    IN  yy * 365 + yy \div 4 - yy \div 100 + yy \div 400 + doy

\* new Date(value)
newDate(v) == [valid |-> v # undefined, t |-> v]
\* Date.prototype.getTime(), in milliseconds (NaN for an invalid date)
getTime(date) ==
    IF ~date.valid THEN NaN
    ELSE Number((((DayNumber(date.t) - DayNumber(ModelEpoch)) * 24 + date.t.h) * 60
              + date.t.mi) * MsPerMinute + date.t.s * 1000)
\* new Date(timestamp): the date of a time value in milliseconds
DateOfMs(ms) ==
    LET MsPerDay == 24 * 60 * MsPerMinute
        z == DayNumber(ModelEpoch) + (ms \div MsPerDay)
        rest == ms % MsPerDay
        era == z \div 146097
        doe == z - era * 146097
        yoe == (doe - doe \div 1460 + doe \div 36524 - doe \div 146096) \div 365
        doy == doe - (365 * yoe + yoe \div 4 - yoe \div 100)
        mp == (5 * doy + 2) \div 153
        day == doy - (153 * mp + 2) \div 5 + 1
        month == IF mp < 10 THEN mp + 3 ELSE mp - 9
        year == yoe + era * 400 + (IF month <= 2 THEN 1 ELSE 0)
    IN  [valid |-> TRUE,
         t |-> [y |-> year, mo |-> month, d |-> day,
                h |-> rest \div (60 * MsPerMinute),
                mi |-> (rest % (60 * MsPerMinute)) \div MsPerMinute,
                s |-> (rest % MsPerMinute) \div 1000]]

\* Utils.formatDate: 'DD.MM.YYYY' of a date, '' for a missing value; the
\* time of day is not part of the label
DateLabel(day, month, year) == [day |-> day, month |-> month, year |-> year]
EmptyLabel == DateLabel(0, 0, 0)
formatDate(date) ==
    IF ~date.valid THEN EmptyLabel
    ELSE DateLabel(date.t.d, date.t.mo, date.t.y)

\* Date.prototype.getFullYear()
getFullYear(date) == IF date.valid THEN Number(date.t.y) ELSE NaN
\* Date.prototype.getMonth(): 0 for January
getMonth(date) == IF date.valid THEN Number(date.t.mo - 1) ELSE NaN

\* ------------------------------------------------------------------------
\* Operations and items
\* ------------------------------------------------------------------------
NoWeight == [n |-> 0, d |-> -1]      \* the weight field of a device operation

DeviceOp(id, s, e) ==
    [id |-> id, start_time |-> s, end_time |-> e, date |-> undefined, weight |-> NoWeight]
BottleOp(id, dt, w) ==
    [id |-> id, start_time |-> undefined, end_time |-> undefined, date |-> dt, weight |-> w]

\* sample timestamps (device operations) and dates (bottle measurements)
Times ==
    { Time(2023, 12, 30, 10, 0), Time(2023, 12, 31, 23, 45),
      Time(2024, 1, 2, 10, 0), Time(2024, 1, 2, 10, 30) }
Dates == { Time(2023, 12, 30, 0, 0), Time(2024, 1, 2, 0, 0) }
Weights == { Kg(w) : w \in 0..MaxWeight }

\* a year argument: a number, or the string "all"
YearNum(y) == [type |-> "number", num |-> Number(y), str |-> ""]
YearStr(s) == [type |-> "string", num |-> NaN, str |-> s]
Years == { YearNum(2023), YearNum(2024), YearNum(2025), YearStr("all") }
\* opDate.getFullYear() === year
StrictEqYear(n, year) == year.type = "number" /\ NumEq(n, year.num)

\* an operations argument: an array, or missing (null / undefined)
Present(list) == [present |-> TRUE, list |-> list]
Missing == [present |-> FALSE, list |-> <<>>]

\* ------------------------------------------------------------------------
\* Array.prototype.sort with the comparator
\*     (a, b) => new Date(b[field]) - new Date(a[field])
\* The sort is stable; a comparator result of NaN counts as 0.
\* ------------------------------------------------------------------------
\* a comparator that also moves b before a when both have the same time
ComesAfterOrSame(a, b, field) ==
    NumGE(NumSub(getTime(newDate(b[field])), getTime(newDate(a[field]))), Number(0))

\* the comparator's result for (a, b) is > 0: b goes before a
ComesAfter(a, b, field) ==
    NumGT(NumSub(getTime(newDate(b[field])), getTime(newDate(a[field]))), Number(0))

RECURSIVE InsertOp(_, _, _)
InsertOp(sorted, x, field) ==
    IF sorted = <<>> THEN <<x>>
    ELSE IF ComesAfter(Head(sorted), x, field) THEN <<x>> \o sorted
    ELSE <<Head(sorted)>> \o InsertOp(Tail(sorted), x, field)

RECURSIVE SortInto(_, _, _)
SortInto(sorted, rest, field) ==
    IF rest = <<>> THEN sorted
    ELSE SortInto(InsertOp(sorted, Head(rest), field), Tail(rest), field)

sortByDateDesc(list, field) == SortInto(<<>>, list, field)

\* the caller's array after operations.sort(...): sorted in place
arrayAfterSortInPlace(operations, field) ==
    IF operations.present THEN [operations EXCEPT !.list = sortByDateDesc(@, field)]
    ELSE operations

\* the caller's array after [...operations].sort(...): the copy is sorted,
\* the array itself is as it was
arrayAfterSortOfCopy(operations, field) == operations

\* ------------------------------------------------------------------------
\* DataManager (static/js/ui.js)
\* ------------------------------------------------------------------------
\* the difference of the time values divided by 1000: seconds, not minutes
durationInSeconds(op) ==
    NumDiv(NumSub(getTime(newDate(op.end_time)), getTime(newDate(op.start_time))),
           Number(1000))

durationInMinutes(op) ==
    NumDiv(NumSub(getTime(newDate(op.end_time)), getTime(newDate(op.start_time))),
           Number(MsPerMinute))

RECURSIVE reduceDuration(_, _)
reduceDuration(sum, list) ==
    IF list = <<>> THEN sum
    ELSE reduceDuration(NumAdd(sum, durationInMinutes(Head(list))), Tail(list))

calculateTotalDuration(operations) ==
    IF ~operations.present \/ Len(operations.list) = 0 THEN Number(0)
    ELSE reduceDuration(Number(0), operations.list)

\* a filter that reads the year of end_time
filterOperationsByEndYear(operations, year) ==
    IF ~operations.present THEN <<>>
    ELSE SelectSeq(operations.list,
                   LAMBDA op : StrictEqYear(getFullYear(newDate(op.end_time)), year))

filterOperationsByYear(operations, year) ==
    IF ~operations.present THEN <<>>
    ELSE SelectSeq(operations.list,
                   LAMBDA op : StrictEqYear(getFullYear(newDate(op.start_time)), year))

NoOperation == [isNull |-> TRUE, op |-> DeviceOp(0, undefined, undefined)]
SomeOperation(op) == [isNull |-> FALSE, op |-> op]

\* the head of the sorted copy without the test of the length: undefined,
\* not null, for an empty array
getLastOperationNoLengthTest(operations) ==
    IF ~operations.present THEN NoOperation
    ELSE IF Len(operations.list) = 0 THEN SomeOperation(DeviceOp(0, undefined, undefined))
    ELSE SomeOperation(sortByDateDesc(operations.list, "start_time")[1])

getLastOperation(operations) ==
    IF ~operations.present \/ Len(operations.list) = 0 THEN NoOperation
    ELSE SomeOperation(sortByDateDesc(operations.list, "start_time")[1])

\* monthly buckets that are filled without the test of the year
RECURSIVE forEachMonthlyAnyYear(_, _, _)
forEachMonthlyAnyYear(monthlyDurations, list, year) ==
    IF list = <<>> THEN monthlyDurations
    ELSE LET op == Head(list)
             opDate == newDate(op.start_time)
             month == getMonth(opDate).n
             next == [monthlyDurations EXCEPT
                        ![month] = NumAdd(@, NumDiv(durationInMinutes(op), Number(60)))]
         IN  forEachMonthlyAnyYear(next, Tail(list), year)

RECURSIVE forEachMonthly(_, _, _)
forEachMonthly(monthlyDurations, list, year) ==
    IF list = <<>> THEN monthlyDurations
    ELSE LET op == Head(list)
             opDate == newDate(op.start_time)
             month == getMonth(opDate).n
             next == IF StrictEqYear(getFullYear(opDate), year)
                     THEN [monthlyDurations EXCEPT
                             ![month] = NumAdd(@, NumDiv(durationInMinutes(op), Number(60)))]
                     ELSE monthlyDurations
         IN  forEachMonthly(next, Tail(list), year)

calculateMonthlyStats(operations, year) ==
    LET monthlyDurations == [m \in 0..11 |-> Number(0)]
    IN  IF ~operations.present THEN monthlyDurations
        ELSE forEachMonthly(monthlyDurations, operations.list, year)

\* the years collected in an array instead of a Set: every occurrence is kept
RECURSIVE addYearsNoDedup(_, _)
addYearsNoDedup(years, list) ==
    IF list = <<>> THEN years
    ELSE addYearsNoDedup(Append(years, getFullYear(newDate(Head(list).start_time))),
                         Tail(list))

\* the years of a Set, in insertion order (a Set keeps each value once; NaN
\* is a single value of a Set)
RECURSIVE addYears(_, _)
addYears(years, list) ==
    IF list = <<>> THEN years
    ELSE LET y == getFullYear(newDate(Head(list).start_time))
         IN  addYears(IF \E i \in 1..Len(years) : years[i] = y THEN years
                      ELSE Append(years, y),
                      Tail(list))

\* Array.prototype.sort with the comparator (a, b) => b - a
RECURSIVE InsertYear(_, _)
InsertYear(sorted, y) ==
    IF sorted = <<>> THEN <<y>>
    ELSE IF NumGT(NumSub(y, Head(sorted)), Number(0)) THEN <<y>> \o sorted
    ELSE <<Head(sorted)>> \o InsertYear(Tail(sorted), y)

RECURSIVE sortYearsDesc(_, _)
sortYearsDesc(sorted, rest) ==
    IF rest = <<>> THEN sorted
    ELSE sortYearsDesc(InsertYear(sorted, Head(rest)), Tail(rest))

extractUniqueYears(operations) ==
    IF ~operations.present THEN <<>>
    ELSE sortYearsDesc(<<>>, addYears(<<>>, operations.list))

\* bottle.operations?.[0]: the first operation as listed, without the sort
firstListedOperation(bottle) ==
    IF ~bottle.operations.present \/ bottle.operations.list = <<>> THEN NoOperation
    ELSE SomeOperation(bottle.operations.list[1])

\* the head of [...bottle.operations].sort(by date, newest first)
mostRecentOperation(bottle) ==
    LET sortedOperations == IF bottle.operations.present
                            THEN sortByDateDesc(bottle.operations.list, "date") ELSE <<>>
    IN  IF sortedOperations = <<>> THEN NoOperation
        ELSE SomeOperation(sortedOperations[1])

currentWeightOf(bottle, lastOperation) ==
    IF ~lastOperation.isNull /\ lastOperation.op.weight # NoWeight
    THEN lastOperation.op.weight ELSE bottle.initial_weight

\* the used gas taken from the filling weight instead of the current weight
totalUsedGasFromFilling(bottle, currentWeight) ==
    toFixed1(NumSub(bottle.initial_weight, bottle.filling_weight))

totalUsedGasOf(bottle, currentWeight) ==
    toFixed1(NumSub(bottle.initial_weight, currentWeight))

remainingGasKgOf(bottle, currentWeight) ==
    toFixed1(NumSub(currentWeight, bottle.filling_weight))

\* the quotient without the guard bottleWeight > 0
remainingPercentageUnguarded(bottle, currentWeight, bottleWeight) ==
    NumMul(NumDiv(NumSub(currentWeight, bottle.filling_weight), bottleWeight),
           Number(100))

remainingPercentageOf(bottle, currentWeight, bottleWeight) ==
    IF NumGT(bottleWeight, Number(0))
    THEN NumMul(NumDiv(NumSub(currentWeight, bottle.filling_weight), bottleWeight),
                Number(100))
    ELSE Number(0)

calculateBottleStats(bottle) ==
    LET operationsCount == IF bottle.operations.present
                           THEN Len(bottle.operations.list) ELSE 0
        lastOperation == mostRecentOperation(bottle)
        currentWeight == currentWeightOf(bottle, lastOperation)
        bottleWeight == NumSub(bottle.initial_weight, bottle.filling_weight)
        totalUsedGas == totalUsedGasOf(bottle, currentWeight)
        remainingGasKg == remainingGasKgOf(bottle, currentWeight)
        remainingPercentage == remainingPercentageOf(bottle, currentWeight, bottleWeight)
    IN  [operationsCount |-> operationsCount,
         currentWeight |-> currentWeight,
         bottleWeight |-> bottleWeight,
         totalUsedGas |-> totalUsedGas,
         remainingGasKg |-> remainingGasKg,
         remainingPercentage |-> parseFloat(toFixed1(remainingPercentage)),
         lastOperation |-> lastOperation]

calculateDeviceStats(device, year) ==
    LET filteredOperations == filterOperationsByYear(device.operations, year)
        operationsCount == Len(filteredOperations)
        totalDuration == calculateTotalDuration(Present(filteredOperations))
        lastOperation == getLastOperation(Present(filteredOperations))
    IN  [operationsCount |-> operationsCount,
         totalDuration |-> totalDuration,
         lastOperation |-> lastOperation,
         filteredOperations |-> filteredOperations]

\* ------------------------------------------------------------------------
\* Snapshots handed to the engine
\* ------------------------------------------------------------------------
Bottle(id, active, iw, fw, operations) ==
    [kind |-> "bottle", id |-> id, active |-> active,
     purchase_date |-> Time(2023, 12, 28, 0, 0),
     initial_weight |-> iw, filling_weight |-> fw, operations |-> operations]
Device(id, active, operations) ==
    [kind |-> "device", id |-> id, active |-> active,
     purchase_date |-> undefined,
     initial_weight |-> NoWeight, filling_weight |-> NoWeight, operations |-> operations]

\* operations arrays of up to MaxOps entries; the id of an operation is its
\* position in the array
DeviceOpsLists ==
    UNION { { [i \in 1..n |-> DeviceOp(i, f[i][1], f[i][2])] : f \in [1..n -> Times \X Times] }
            : n \in 0..MaxOps }
BottleOpsLists ==
    UNION { { [i \in 1..n |-> BottleOp(i, f[i][1], f[i][2])] : f \in [1..n -> Dates \X Weights] }
            : n \in 0..MaxOps }

\* three operations starting 2023-12-30, 2024-01-02 and 2023-12-31
ThreeStarts ==
    << DeviceOp(1, Time(2023, 12, 30, 10, 0), Time(2023, 12, 30, 10, 0)),
       DeviceOp(2, Time(2024, 1, 2, 10, 0), Time(2024, 1, 2, 10, 30)),
       DeviceOp(3, Time(2023, 12, 31, 23, 45), Time(2024, 1, 2, 10, 0)) >>

DeviceItems ==
    { Device(1, TRUE, o) :
        o \in { Present(l) : l \in DeviceOpsLists } \cup { Missing, Present(ThreeStarts) } }
BottleItems ==
    { Bottle(1, TRUE, iw, fw, o) :
        iw \in Weights, fw \in Weights,
        o \in { Present(l) : l \in BottleOpsLists } \cup { Missing } }
    \cup { Bottle(1, TRUE, Number(20), Number(12), Present(<<>>)) }
Items == DeviceItems \cup BottleItems

\* ------------------------------------------------------------------------
\* The bottle page: BottleManager (static/js/bottles.js) and the charts of
\* ChartManager (static/js/chartManager.js), against a backend that holds
\* MaxBottles bottles.  The view specification covers the handlers that
\* reload the list over a fixed population of bottles: the show-inactive
\* toggle and the (de)activation of a bottle.  Creating and deleting
\* bottles (handleBottleFormSubmit, deleteItem) are not part of it.
\* ------------------------------------------------------------------------
BottleIds == 1..MaxBottles

\* the bottle with a given id as the backend returns it: two measurements,
\* the newer one listed first; a bottle with an even id was measured for the
\* first time on the day of its purchase
BottleData(id, active) ==
    [ Bottle(id, active, Kg(MaxWeight), Kg((id - 1) % 2),
             Present(<< BottleOp(2, Time(2024, 1, 2 + 2 * ((id - 1) % 2), 0, 0),
                                 Kg(id % (MaxWeight + 1))),
                        BottleOp(1, Time(2023, 12, 30, 0, 0), Kg(MaxWeight - 1)) >>))
      EXCEPT !.purchase_date = IF id % 2 = 0 THEN Time(2023, 12, 30, 0, 0)
                               ELSE Time(2023, 12, 28, 0, 0) ]

\* the body of a successful GET of the bottles: the bottles the backend
\* holds, in id order, each with its measurements; srv[id] is "active",
\* "inactive" or, for a bottle that was deleted, "absent"
BottlesFrom(srv) ==
    LET held == SelectSeq([id \in BottleIds |-> id], LAMBDA id : srv[id] # "absent")
    IN  [i \in DOMAIN held |-> BottleData(held[i], srv[held[i]] = "active")]

\* a request that deletes the item instead of updating it
deleteRequest(itemId, newStatus) ==
    [method |-> "DELETE", id |-> itemId, body |-> [active |-> newStatus]]

\* toggleActiveStatus: updateFunction(itemId, { active: newStatus })
updateRequest(itemId, newStatus) ==
    [method |-> "PUT", id |-> itemId, body |-> [active |-> newStatus]]

\* the backend's bottles after a request: an update sets the active flag of
\* the bottle and keeps its measurements, a delete removes the bottle
serverAfter(srv, request) ==
    IF srv[request.id] = "absent" THEN srv
    ELSE IF request.method = "DELETE" THEN [srv EXCEPT ![request.id] = "absent"]
    ELSE [srv EXCEPT ![request.id] = IF request.body.active THEN "active" ELSE "inactive"]

\* a getBottles request in flight: "sent", or answered ("ok" with the body,
\* "failed") and not yet taken up by loadBottles
Request(state, data) == [state |-> state, data |-> data]

NoChart == [alive |-> FALSE, labels |-> <<>>, data |-> <<>>, colors |-> <<>>]
ChartNames == { "consumption" }

\* ChartManager.destroyAllCharts
destroyAllCharts(chartMap) == [name \in DOMAIN chartMap |-> NoChart]

\* ChartManager.generateColors: the palette, repeated from its start
Palette ==
    << "rgba(74, 125, 255, 0.8)", "rgba(142, 68, 173, 0.8)", "rgba(46, 204, 113, 0.8)",
       "rgba(241, 196, 15, 0.8)", "rgba(231, 76, 60, 0.8)", "rgba(26, 188, 156, 0.8)",
       "rgba(243, 156, 18, 0.8)", "rgba(155, 89, 182, 0.8)", "rgba(52, 152, 219, 0.8)",
       "rgba(230, 126, 34, 0.8)" >>
generateColors(count) == [i \in 1..count |-> Palette[((i - 1) % Len(Palette)) + 1]]

\* ChartManager.createBarChart: the chart of that name is destroyed and
\* replaced; the bars are coloured by generateColors(data.length)
createBarChart(chartMap, chartName, labels, data) ==
    [chartMap EXCEPT ![chartName] =
        [alive |-> TRUE, labels |-> labels, data |-> data,
         colors |-> generateColors(Len(data))]]

\* ChartManager.createConsumptionChart
createConsumptionChart(chartMap, bottles) ==
    createBarChart(chartMap, "consumption",
                   [i \in DOMAIN bottles |-> bottles[i].id],
                   [i \in DOMAIN bottles |-> bottles[i].percentage])

\* the time values of the purchase and of the measurements of the bottles,
\* collected in an array: a value is kept as often as it occurs
RECURSIVE addDatesNoDedup(_, _)
addDatesNoDedup(allDates, values) ==
    IF values = <<>> THEN allDates
    ELSE addDatesNoDedup(Append(allDates, getTime(newDate(Head(values)))), Tail(values))

\* allDates.add(new Date(value).getTime()) for each value: a Set keeps a
\* time value once
RECURSIVE addDates(_, _)
addDates(allDates, values) ==
    IF values = <<>> THEN allDates
    ELSE LET t == getTime(newDate(Head(values)))
         IN  addDates(IF \E i \in 1..Len(allDates) : allDates[i] = t THEN allDates
                      ELSE Append(allDates, t),
                      Tail(values))

\* the dates of a bottle in the order they are added: purchase, operations
datesOfBottle(bottle) ==
    << bottle.purchase_date >> \o
    (IF bottle.operations.present
     THEN [i \in DOMAIN bottle.operations.list |-> bottle.operations.list[i].date]
     ELSE <<>>)

RECURSIVE allDatesOf(_, _)
allDatesOf(allDates, bottles) ==
    IF bottles = <<>> THEN allDates
    ELSE allDatesOf(addDates(allDates, datesOfBottle(Head(bottles))), Tail(bottles))

\* Array.prototype.sort with the comparator (a, b) => a - b
RECURSIVE InsertTimestamp(_, _)
InsertTimestamp(sorted, t) ==
    IF sorted = <<>> THEN <<t>>
    ELSE IF NumGT(NumSub(Head(sorted), t), Number(0)) THEN <<t>> \o sorted
    ELSE <<Head(sorted)>> \o InsertTimestamp(Tail(sorted), t)

RECURSIVE sortTimestamps(_, _)
sortTimestamps(sorted, rest) ==
    IF rest = <<>> THEN sorted
    ELSE sortTimestamps(InsertTimestamp(sorted, Head(rest)), Tail(rest))

\* sortedDateLabels: the labels of the sorted time values
sortedDateLabelsOf(bottles) ==
    LET sortedDateTimestamps == sortTimestamps(<<>>, allDatesOf(<<>>, bottles))
    IN  [i \in DOMAIN sortedDateTimestamps |->
            IF IsFinite(sortedDateTimestamps[i])
            THEN formatDate(DateOfMs(sortedDateTimestamps[i].n))
            ELSE formatDate(newDate(undefined))]

\* an entry of a dataset's data array: a number, null, or an {x, y} object
NumberEntry(y) == [kind |-> "number", x |-> EmptyLabel, y |-> y]
NullEntry == [kind |-> "null", x |-> EmptyLabel, y |-> Number(0)]
PointEntry(x, y) == [kind |-> "point", x |-> x, y |-> y]

\* bottleData: a Map from date label to weight; set overwrites the value of
\* a label that is already there
MapSet(map, key, value) ==
    IF \E i \in DOMAIN map : map[i].key = key
    THEN [i \in DOMAIN map |-> IF map[i].key = key THEN [key |-> key, value |-> value]
                                ELSE map[i]]
    ELSE Append(map, [key |-> key, value |-> value])

RECURSIVE setOperations(_, _)
setOperations(map, list) ==
    IF list = <<>> THEN map
    ELSE setOperations(MapSet(map, formatDate(newDate(Head(list).date)), Head(list).weight),
                       Tail(list))

bottleDataOf(bottle) ==
    LET first == MapSet(<<>>, formatDate(newDate(bottle.purchase_date)),
                        bottle.initial_weight)
    IN  IF bottle.operations.present THEN setOperations(first, bottle.operations.list)
        ELSE first

\* weightDataPoints: the weight at each label of the axis or null, and the
\* extra point pushed after them
weightDataPointsOf(bottle, sortedDateLabels) ==
    LET bottleData == bottleDataOf(bottle)
        atLabels == [i \in DOMAIN sortedDateLabels |->
                       IF \E k \in DOMAIN bottleData : bottleData[k].key = sortedDateLabels[i]
                       THEN NumberEntry(bottleData[CHOOSE k \in DOMAIN bottleData :
                                            bottleData[k].key = sortedDateLabels[i]].value)
                       ELSE NullEntry]
        invisibleZeroPoint == PointEntry(sortedDateLabels[1], Number(8))
    IN  Append(atLabels, invisibleZeroPoint)

\* ChartManager.createBottleHistoryChart: the new chart with its axis labels
\* and, for each bottle, the weight dataset and the tare weight of the
\* dashed dataset
createBottleHistoryChart(activeBottles) ==
    LET sortedDateLabels == sortedDateLabelsOf(activeBottles)
    IN  [alive |-> TRUE, labels |-> sortedDateLabels,
         data |-> [i \in DOMAIN activeBottles |->
                     [id |-> activeBottles[i].id,
                      data |-> weightDataPointsOf(activeBottles[i], sortedDateLabels),
                      tareWeight |-> NumSub(activeBottles[i].initial_weight,
                                            activeBottles[i].filling_weight)]],
         colors |-> <<>>]

\* BottleManager.filterItemsByVisibility
filterItemsByVisibility(flag, items) ==
    IF flag THEN items ELSE SelectSeq(items, LAMBDA it : it.active)

\* a series with an entry for every displayed bottle, active or not
allBottlesForChart(bottlesToDisplay) ==
    [i \in DOMAIN bottlesToDisplay |->
        [id |-> bottlesToDisplay[i].id,
         percentage |-> calculateBottleStats(bottlesToDisplay[i]).remainingPercentage]]

\* the series loadBottles prepares for the consumption chart
activeBottlesForChart(bottlesToDisplay) ==
    LET activeOnes == SelectSeq(bottlesToDisplay, LAMBDA b : b.active)
    IN  [i \in DOMAIN activeOnes |->
            [id |-> activeOnes[i].id,
             percentage |-> calculateBottleStats(activeOnes[i]).remainingPercentage]]

\* the bottles loadBottles hands to the history chart
activeBottlesWithHistory(flag, bottlesToDisplay) ==
    IF ~flag THEN SelectSeq(bottlesToDisplay, LAMBDA b : b.active) ELSE bottlesToDisplay

\* BottleManager.createBottleCard: what the card shows of the bottle
createBottleCard(bottle) ==
    [id |-> bottle.id, active |-> bottle.active, stats |-> calculateBottleStats(bottle)]

Grid(state, cards) == [state |-> state, cards |-> cards]

\* ------------------------------------------------------------------------
\* The entries table of the bottle page (BottleManager.loadBottleEntries,
\* static/js/bottles.js, and DataManager.createOperationTableRow,
\* static/js/ui.js)
\* ------------------------------------------------------------------------
\* a value that || passes over: 0, NaN or undefined
Falsy(x) == x = NoWeight \/ IsNaN(x) \/ (IsFinite(x) /\ x.n = 0)

\* loadBottleEntries, for one bottle: the copy of the operations sorted by
\* date, newest first, each with previousWeight = nextOp ? nextOp.weight :
\* bottle.initial_weight
operationsWithPreviousWeight(bottle) ==
    LET operations == IF bottle.operations.present
                      THEN sortByDateDesc(bottle.operations.list, "date") ELSE <<>>
    IN  [index \in DOMAIN operations |->
            [operation |-> operations[index],
             previousWeight |-> IF index < Len(operations)
                                THEN operations[index + 1].weight
                                ELSE bottle.initial_weight]]

\* createOperationTableRow(operation, item, 'bottle'): the weight, the
\* previous weight the row is computed from, and the two amounts it shows
createOperationTableRow(entry, bottle) ==
    LET bottleWeight == NumSub(bottle.initial_weight, bottle.filling_weight)
        previousWeight == IF Falsy(entry.previousWeight) THEN bottle.initial_weight
                          ELSE entry.previousWeight
    IN  [id |-> entry.operation.id,
         weight |-> entry.operation.weight,
         previousWeight |-> previousWeight,
         usedGas |-> toFixed1(NumSub(previousWeight, entry.operation.weight)),
         remainingGas |-> toFixed1(NumSub(entry.operation.weight, bottleWeight))]

\* the rows of one bottle in the entries table, newest first
entriesTableRows(bottle) ==
    LET entries == operationsWithPreviousWeight(bottle)
    IN  [index \in DOMAIN entries |-> createOperationTableRow(entries[index], bottle)]

\* ------------------------------------------------------------------------
\* The monthly trend chart of the device page
\* (ChartManager.createMonthlyTrendChart, static/js/chartManager.js)
\* ------------------------------------------------------------------------
\* operations of a device as the backend can return them: one of ten seconds,
\* of 6 minutes, of 1, 5, 10 and 16 2/3 hours, one that starts in 2023, and
\* one whose end_time lies before its start_time
TrendOps ==
    << DeviceOp(1, Time(2024, 1, 2, 10, 0), TimeS(2024, 1, 2, 10, 0, 10)),
       DeviceOp(2, Time(2024, 1, 2, 10, 0), Time(2024, 1, 2, 10, 6)),
       DeviceOp(3, Time(2024, 1, 2, 10, 0), Time(2024, 1, 2, 11, 0)),
       DeviceOp(4, Time(2024, 1, 2, 10, 0), Time(2024, 1, 2, 15, 0)),
       DeviceOp(5, Time(2024, 1, 2, 10, 0), Time(2024, 1, 2, 20, 0)),
       DeviceOp(6, Time(2024, 1, 2, 10, 0), Time(2024, 1, 3, 2, 40)),
       DeviceOp(7, Time(2023, 12, 31, 23, 45), Time(2024, 1, 1, 0, 15)),
       DeviceOp(8, Time(2024, 1, 2, 10, 30), Time(2024, 1, 2, 10, 0)) >>

\* operations arrays: up to MaxOps consecutive entries of TrendOps, or none
TrendOpsLists ==
    UNION { { SubSeq(TrendOps, i, i + n - 1) : i \in 1..(Len(TrendOps) - n + 1) }
            : n \in 0..MaxOps }

\* what a device of a response can be: active with any of the operations
\* arrays or none, or inactive with an operation of 2024 or with one that
\* starts in 2023
DeviceChoices ==
    ({ TRUE } \X ({ Present(l) : l \in TrendOpsLists } \cup { Missing }))
        \cup ({ FALSE } \X { Present(SubSeq(TrendOps, 3, 3)), Present(SubSeq(TrendOps, 7, 7)) })

\* the devices of a response of DeviceAPI.getDevices, in id order
DeviceLists ==
    { [id \in 1..MaxDevices |-> Device(id, f[id][1], f[id][2])] :
        f \in [1..MaxDevices -> DeviceChoices] }

\* the forEach over device.operations: the hours of the operations that
\* start in the year, by month of their start
RECURSIVE forEachTrendOperation(_, _, _)
forEachTrendOperation(monthlyDurationsHours, list, year) ==
    IF list = <<>> THEN monthlyDurationsHours
    ELSE LET op == Head(list)
             opDate == newDate(op.start_time)
             month == getMonth(opDate).n
             next == IF NumEq(getFullYear(opDate), year)
                     THEN [monthlyDurationsHours EXCEPT
                             ![month] = NumAdd(@, NumDiv(durationInMinutes(op), Number(60)))]
                     ELSE monthlyDurationsHours
         IN  forEachTrendOperation(next, Tail(list), year)

monthlyDurationsHoursOf(device, year) ==
    LET zeros == [m \in 0..11 |-> Number(0)]
    IN  IF ~device.operations.present THEN zeros
        ELSE forEachTrendOperation(zeros, device.operations.list, year)

\* a test that lets every device through, with or without hours in the year
someMonthOrNone(monthlyDurationsHours) == TRUE

\* monthlyDurationsHours.some(val => val > 0)
someMonthPositive(monthlyDurationsHours) ==
    \E m \in 0..11 : NumGT(monthlyDurationsHours[m], Number(0))

\* the dataset pushed for a device
TrendDataset(device, monthlyDurationsHours) ==
    [label |-> device.id,
     data |-> [m \in 0..11 |-> parseFloat2(toFixed2(monthlyDurationsHours[m]))]]

\* the datasets of the chart: devices.forEach(...)
RECURSIVE trendDatasets(_, _)
trendDatasets(devs, year) ==
    IF devs = <<>> THEN <<>>
    ELSE LET monthlyDurationsHours == monthlyDurationsHoursOf(Head(devs), year)
         IN  (IF someMonthPositive(monthlyDurationsHours)
              THEN << TrendDataset(Head(devs), monthlyDurationsHours) >>
              ELSE <<>>) \o trendDatasets(Tail(devs), year)

\* datasets.flatMap(dataset => dataset.data)
RECURSIVE flatMapData(_)
flatMapData(datasets) ==
    IF datasets = <<>> THEN <<>>
    ELSE [i \in 1..12 |-> Head(datasets).data[i - 1]] \o flatMapData(Tail(datasets))

\* the step size with the first two bands taken as one
stepSizeCoarse(maxValue) ==
    IF NumLE(maxValue, Number(1)) THEN Num(1, 10)
    ELSE IF NumLE(maxValue, Number(5)) THEN Num(1, 2)
    ELSE IF NumLE(maxValue, Number(10)) THEN Number(1)
    ELSE MathCeil(NumDiv(maxValue, Number(8)))

\* the step size of the hour axis
stepSizeOf(maxValue) ==
    IF NumLE(maxValue, Num(1, 10)) THEN Num(2, 100)
    ELSE IF NumLE(maxValue, Number(1)) THEN Num(1, 10)
    ELSE IF NumLE(maxValue, Number(5)) THEN Num(1, 2)
    ELSE IF NumLE(maxValue, Number(10)) THEN Number(1)
    ELSE MathCeil(NumDiv(maxValue, Number(8)))

NoLineChart == [alive |-> FALSE, datasets |-> <<>>, stepSize |-> Number(0)]

\* ChartManager.createMonthlyTrendChart: the line chart 'operationsLine'
createMonthlyTrendChart(devs, year) ==
    LET datasets == trendDatasets(devs, year)
        allValues == flatMapData(datasets)
        maxValue == MathMax(allValues)
    IN  [alive |-> TRUE, datasets |-> datasets, stepSize |-> stepSizeOf(maxValue)]

\* devices.filter(device => device.active)
activeDevicesOf(devs) == SelectSeq(devs, LAMBDA device : device.active)

\* the trend chart of the device page for the selected year
renderMonthlyTrendChart(devs, year) ==
    createMonthlyTrendChart(activeDevicesOf(devs), year)

\* the years of the year filter
StatsYears == { Number(2023), Number(2024) }

\* ------------------------------------------------------------------------
\* The transport (apiRequest, static/js/api.js in its two versions) and the
\* loading spinner (UI.showLoading, static/js/ui.js)
\* ------------------------------------------------------------------------
Slots == 1..MaxRequests
\* apiRequest returns response.json() without awaiting it; API.request
\* awaits it inside the try block
Transports == { "apiRequest", "API.request" }
\* how fetch settles: rejected, or fulfilled with a response that is not ok,
\* has status 204, has no JSON content type, or has a JSON body
ResponseKinds == { "network_error", "not_ok", "204", "ok_nonjson", "ok_json" }

\* a transport call: where it stands (pc), what fetch gave it, how the call
\* ended for its caller (result) and what it did, in order (log)
NoRequest ==
    [pc |-> "idle", transport |-> "", response |-> "", result |-> "none", log |-> <<>>]

\* try { UI.showLoading(true); const response = await fetch(url, options)
startRequest(transport) ==
    [pc |-> "fetch", transport |-> transport, response |-> "", result |-> "none",
     log |-> << "showLoading(true)", "fetch" >>]

\* a catch block that reports the error and returns normally
catchSwallows(request) ==
    [request EXCEPT !.pc = "done", !.result = "null",
                    !.log = @ \o << "showToast", "showLoading(false)", "resolved" >>]

\* catch (error) { console.error; UI.showToast; throw error }
\* finally { UI.showLoading(false) }
catchRethrows(request) ==
    [request EXCEPT !.pc = "done", !.result = "rejected",
                    !.log = @ \o << "showToast", "showLoading(false)", "rejected" >>]

\* return null (or the parsed data); finally { UI.showLoading(false) }
returns(request, value) ==
    [request EXCEPT !.pc = "done", !.result = value,
                    !.log = @ \o << "showLoading(false)", "resolved" >>]

\* the call after fetch has settled
afterFetch(request, kind) ==
    LET got == [request EXCEPT !.response = kind]
    IN  IF kind = "network_error" THEN catchRethrows(got)
        ELSE IF kind = "not_ok" THEN [got EXCEPT !.pc = "text"]
        ELSE IF kind = "204" \/ kind = "ok_nonjson" THEN returns(got, "null")
        ELSE IF got.transport = "apiRequest"
        THEN [got EXCEPT !.pc = "json", !.log = @ \o << "showLoading(false)" >>]
        ELSE [got EXCEPT !.pc = "json"]

\* the call after response.text() of a response that is not ok has settled:
\* the Error with the message is thrown, or the error of reading the text
afterText(request, readable) == catchRethrows(request)

\* the call after response.json() has settled: apiRequest has left its try
\* block before, API.request is still inside it
afterJson(request, parsed) ==
    IF request.transport = "apiRequest"
    THEN [request EXCEPT !.pc = "done",
                         !.result = IF parsed THEN "data" ELSE "rejected",
                         !.log = @ \o << IF parsed THEN "resolved" ELSE "rejected" >>]
    ELSE IF parsed THEN returns(request, "data")
    ELSE catchRethrows(request)

\* the class 'active' of the spinner after the calls of showLoading that a
\* step logs: the last call decides
RECURSIVE showLoading(_, _)
showLoading(active, events) ==
    IF events = <<>> THEN active
    ELSE showLoading(IF Head(events) = "showLoading(true)" THEN TRUE
                     ELSE IF Head(events) = "showLoading(false)" THEN FALSE
                     ELSE active,
                     Tail(events))

\* the events a step has appended to the log of a call
Appended(before, after) == SubSeq(after.log, Len(before.log) + 1, Len(after.log))

\* the callback of deleteItem: idle, or waiting for deleteFunction in a slot
NoDeletion == [pc |-> "idle", slot |-> 0]

VARIABLES
    item,            \* the snapshot the engine is called on
    call,            \* the last engine call: function, year argument, result
    showInactive,    \* BottleManager.showInactive
    server,          \* the backend's bottles: "active", "inactive" or "absent"
    pending,         \* the getBottles requests of loadBottles in flight, oldest first
    grid,            \* the content of #bottle-list
    charts,          \* ChartManager.charts
    historyChart,    \* ChartManager.historyChart
    consumptionCall, \* the last loadBottles that got a response: what was
                     \* fetched and what it handed to createConsumptionChart
    devices,         \* the devices the backend holds
    currentStatsYear,\* DeviceManager.currentStatsYear
    operationsLine,  \* the chart 'operationsLine' of the device page
    spinner,         \* #loading-spinner has the class 'active'
    calls,           \* the transport calls, by slot
    deletion,        \* the confirmed callback of deleteItem
    canvasIds,       \* the canvas elements the document holds
    chartManager,    \* the charts made by createLineChart and createBarChart:
                     \* every Chart constructed, and the map ChartManager.charts
    deleteModal,     \* #delete-modal: shown or not, and the click listeners of
                     \* its confirm and close buttons
    journal          \* what was asked, clicked and sent, in order

engineVars == <<item, call>>
viewVars == <<showInactive, server, pending, grid, charts, historyChart, consumptionCall>>
deviceVars == <<devices, currentStatsYear, operationsLine>>
uiVars == <<spinner, calls, deletion>>
chartVars == <<canvasIds, chartManager>>
modalVars == <<deleteModal, journal>>
widgetVars == <<chartVars, modalVars>>
pageVars == <<uiVars, widgetVars>>
vars == <<item, call, showInactive, server, pending, grid, charts, historyChart,
          consumptionCall, devices, currentStatsYear, operationsLine,
          spinner, calls, deletion, canvasIds, chartManager, deleteModal, journal>>

NoYear == YearNum(0)
Called(fn, year, out) == [fn |-> fn, year |-> year, out |-> out]
NoCall == Called("none", NoYear, Number(0))
NoConsumptionCall ==
    [made |-> FALSE, fetched |-> <<>>, showInactive |-> FALSE, bottles |-> <<>>]

\* the page before BottleManager.init
PageLoaded ==
    /\ showInactive = FALSE
    /\ pending = <<>>
    /\ grid = Grid("blank", <<>>)
    /\ charts = [name \in ChartNames |-> NoChart]
    /\ historyChart = NoChart
    /\ consumptionCall = NoConsumptionCall

\* the device page before DeviceManager.init
\* ------------------------------------------------------------------------
\* The Chart objects of ChartManager (static/js/chartManager.js): every
\* Chart that createLineChart or createBarChart has constructed, in order of
\* construction, and the map this.charts from chart names to them
\* ------------------------------------------------------------------------
\* the canvas and the chart name handed over by createConsumptionChart and
\* createMonthlyTrendChart
ManagedCharts ==
    { [canvasId |-> "consumption-chart", chartName |-> "consumption"],
      [canvasId |-> "deviceOperationsLineChart", chartName |-> "operationsLine"] }
ManagedNames == { managed.chartName : managed \in ManagedCharts }
Canvases == { managed.canvasId : managed \in ManagedCharts }

\* constructor: this.charts = new Map(); 0 stands for no entry
NewChartManager == [created |-> <<>>, charts |-> [name \in ManagedNames |-> 0]]

\* chart.destroy()
destroy(created, index) == [created EXCEPT ![index].destroyed = TRUE]

\* ChartManager.destroyChart
destroyChart(manager, chartName) ==
    LET chart == manager.charts[chartName]
    IN  IF chart # 0
        THEN [created |-> destroy(manager.created, chart),
              charts |-> [manager.charts EXCEPT ![chartName] = 0]]
        ELSE manager

\* ChartManager.destroyAllCharts: forEach(chart => chart.destroy()), clear()
destroyEveryChart(manager) ==
    [created |-> [index \in DOMAIN manager.created |->
                     IF \E name \in ManagedNames : manager.charts[name] = index
                     THEN [manager.created[index] EXCEPT !.destroyed = TRUE]
                     ELSE manager.created[index]],
     charts |-> [name \in ManagedNames |-> 0]]

\* new Chart(ctx, { type, ... }); this.charts.set(chartName, chart)
constructChart(manager, type, canvasId, chartName) ==
    [created |-> Append(manager.created,
                        [canvasId |-> canvasId, chartName |-> chartName,
                         type |-> type, destroyed |-> FALSE]),
     charts |-> [manager.charts EXCEPT ![chartName] = Len(manager.created) + 1]]

\* a creation that leaves the chart of the same name as it is
createWithoutDestroy(manager, type, canvasId, chartName, present) ==
    IF canvasId \notin present THEN manager
    ELSE constructChart(manager, type, canvasId, chartName)

\* ChartManager.createLineChart and createBarChart: without the canvas
\* nothing happens; else the chart of that name is destroyed, the new one
\* is constructed and stored
createChart(manager, type, canvasId, chartName, present) ==
    IF canvasId \notin present THEN manager
    ELSE constructChart(destroyChart(manager, chartName), type, canvasId, chartName)

\* ------------------------------------------------------------------------
\* The confirmation modal (UI.showConfirmModal, static/js/ui.js) and the
\* callbacks of deleteItem and toggleActiveStatus (static/js/bottles.js)
\* ------------------------------------------------------------------------
\* the callback handed to showConfirmModal: the request it sends when run
\* (deleteFunction(itemId), or updateFunction(itemId, { active }))
Callbacks == { [method |-> method, id |-> id] :
                 method \in { "DELETE", "PUT" }, id \in BottleIds }

\* an entry of the journal
Event(type, method, id) == [type |-> type, method |-> method, id |-> id]

\* the modal of the page as loaded: hidden, no listener on its buttons
ModalHidden == [active |-> FALSE, confirmListeners |-> <<>>, closeListeners |-> 0]

\* addEventListener on the confirm button that is already in the document
listenersOnSameButton(listeners, onConfirm) == Append(listeners, onConfirm)

\* confirmBtn.cloneNode(true) and replaceChild: the new button has none of
\* the old listeners; newConfirmBtn.addEventListener('click', ...)
listenersAfterReplace(listeners, onConfirm) == << onConfirm >>

\* UI.showConfirmModal(title, message, onConfirm)
showConfirmModal(modal, onConfirm) ==
    [active |-> TRUE,
     confirmListeners |-> listenersAfterReplace(modal.confirmListeners, onConfirm),
     closeListeners |-> modal.closeListeners + 1]

\* UI.hideModal('delete-modal')
hideModal(modal) == [modal EXCEPT !.active = FALSE]

\* the requests the listeners of the confirm button send when it is
\* clicked: each runs onConfirm(), whose first step sends the request
requestsOf(listeners) ==
    [k \in DOMAIN listeners |-> Event("request", listeners[k].method, listeners[k].id)]

DevicePageLoaded ==
    /\ devices = <<>>
    /\ currentStatsYear = Number(2024)
    /\ operationsLine = NoLineChart

\* no transport call has been made
UiLoaded ==
    /\ spinner = FALSE
    /\ calls = [slot \in Slots |-> NoRequest]
    /\ deletion = NoDeletion
    /\ canvasIds = Canvases
    /\ chartManager = NewChartManager
    /\ deleteModal = ModalHidden
    /\ journal = <<>>

\* ------------------------------------------------------------------------
\* The engine called on one snapshot
\* ------------------------------------------------------------------------
Init ==
    /\ item \in Items
    /\ call = NoCall
    /\ server = [id \in BottleIds |-> "active"]
    /\ PageLoaded
    /\ DevicePageLoaded
    /\ UiLoaded

CallCalculateBottleStats ==
    /\ call = NoCall
    /\ item.kind = "bottle"
    /\ call' = Called("calculateBottleStats", NoYear, calculateBottleStats(item))
    /\ item' = [item EXCEPT !.operations = arrayAfterSortOfCopy(@, "date")]
    /\ UNCHANGED viewVars
    /\ UNCHANGED deviceVars
    /\ UNCHANGED pageVars

\* loadBottleEntries builds the rows of the bottle in the entries table
CallLoadBottleEntries ==
    /\ call = NoCall
    /\ item.kind = "bottle"
    /\ call' = Called("loadBottleEntries", NoYear, entriesTableRows(item))
    /\ UNCHANGED item
    /\ UNCHANGED viewVars
    /\ UNCHANGED deviceVars
    /\ UNCHANGED pageVars

CallCalculateTotalDuration ==
    /\ call = NoCall
    /\ call' = Called("calculateTotalDuration", NoYear,
                      calculateTotalDuration(item.operations))
    /\ UNCHANGED item
    /\ UNCHANGED viewVars
    /\ UNCHANGED deviceVars
    /\ UNCHANGED pageVars

CallFilterOperationsByYear ==
    /\ call = NoCall
    /\ \E year \in Years :
         call' = Called("filterOperationsByYear", year,
                        filterOperationsByYear(item.operations, year))
    /\ UNCHANGED item
    /\ UNCHANGED viewVars
    /\ UNCHANGED deviceVars
    /\ UNCHANGED pageVars

CallGetLastOperation ==
    /\ call = NoCall
    /\ call' = Called("getLastOperation", NoYear, getLastOperation(item.operations))
    /\ item' = [item EXCEPT !.operations = arrayAfterSortOfCopy(@, "start_time")]
    /\ UNCHANGED viewVars
    /\ UNCHANGED deviceVars
    /\ UNCHANGED pageVars

CallCalculateMonthlyStats ==
    /\ call = NoCall
    /\ \E year \in Years :
         call' = Called("calculateMonthlyStats", year,
                        calculateMonthlyStats(item.operations, year))
    /\ UNCHANGED item
    /\ UNCHANGED viewVars
    /\ UNCHANGED deviceVars
    /\ UNCHANGED pageVars

CallExtractUniqueYears ==
    /\ call = NoCall
    /\ call' = Called("extractUniqueYears", NoYear, extractUniqueYears(item.operations))
    /\ UNCHANGED item
    /\ UNCHANGED viewVars
    /\ UNCHANGED deviceVars
    /\ UNCHANGED pageVars

CallCalculateDeviceStats ==
    /\ call = NoCall
    /\ item.kind = "device"
    /\ \E year \in Years :
         call' = Called("calculateDeviceStats", year, calculateDeviceStats(item, year))
    \* filter returns a new array, which getLastOperation copies again
    /\ UNCHANGED item
    /\ UNCHANGED viewVars
    /\ UNCHANGED deviceVars
    /\ UNCHANGED pageVars

\* the caller has used the result; the engine keeps nothing of the call
Return ==
    /\ call # NoCall
    /\ call' = NoCall
    /\ UNCHANGED item
    /\ UNCHANGED viewVars
    /\ UNCHANGED deviceVars
    /\ UNCHANGED pageVars

Next ==
    \/ CallCalculateBottleStats
    \/ CallLoadBottleEntries
    \/ CallCalculateTotalDuration
    \/ CallFilterOperationsByYear
    \/ CallGetLastOperation
    \/ CallCalculateMonthlyStats
    \/ CallExtractUniqueYears
    \/ CallCalculateDeviceStats
    \/ Return

Spec == Init /\ [][Next]_vars

\* ------------------------------------------------------------------------
\* The bottle page in use
\* ------------------------------------------------------------------------
CanStartRequest == Len(pending) < MaxPending
\* BottleAPI.getBottles() is sent; loadBottles waits for it
startLoadBottles(requests) == Append(requests, Request("sent", <<>>))
\* the requests without the one at position r
Without(requests, r) ==
    [i \in 1..(Len(requests) - 1) |-> IF i < r THEN requests[i] ELSE requests[i + 1]]

\* BottleManager.init on a backend in any state
ViewInit ==
    /\ item = Device(1, TRUE, Missing)
    /\ call = NoCall
    /\ server \in [BottleIds -> {"active", "inactive"}]
    /\ showInactive = FALSE
    /\ pending = startLoadBottles(<<>>)
    /\ grid = Grid("blank", <<>>)
    /\ charts = [name \in ChartNames |-> NoChart]
    /\ historyChart = NoChart
    /\ consumptionCall = NoConsumptionCall
    /\ DevicePageLoaded
    /\ UiLoaded

\* click on "toggle inactive bottles"
ToggleInactiveBottleVisibility ==
    /\ CanStartRequest
    /\ showInactive' = ~showInactive
    /\ pending' = startLoadBottles(pending)
    /\ UNCHANGED <<server, grid, charts, historyChart, consumptionCall>>
    /\ UNCHANGED engineVars
    /\ UNCHANGED deviceVars
    /\ UNCHANGED pageVars

\* the (de)activation of a displayed bottle is confirmed: the update is sent
\* with the opposite of the status the card shows, and the list is reloaded
ToggleBottleActiveStatus ==
    /\ CanStartRequest
    /\ \E k \in DOMAIN grid.cards :
         LET bottleId == grid.cards[k].id
             newStatus == ~grid.cards[k].active
         IN  server' = serverAfter(server, updateRequest(bottleId, newStatus))
    /\ pending' = startLoadBottles(pending)
    /\ UNCHANGED <<showInactive, grid, charts, historyChart, consumptionCall>>
    /\ UNCHANGED engineVars
    /\ UNCHANGED deviceVars
    /\ UNCHANGED pageVars

\* the backend answers a getBottles request
GetBottlesSucceeds ==
    /\ \E r \in DOMAIN pending :
         /\ pending[r].state = "sent"
         /\ pending' = [pending EXCEPT ![r] = Request("ok", BottlesFrom(server))]
    /\ UNCHANGED <<showInactive, server, grid, charts, historyChart, consumptionCall>>
    /\ UNCHANGED engineVars
    /\ UNCHANGED deviceVars
    /\ UNCHANGED pageVars

\* a getBottles request fails
GetBottlesFails ==
    /\ \E r \in DOMAIN pending :
         /\ pending[r].state = "sent"
         /\ pending' = [pending EXCEPT ![r] = Request("failed", <<>>)]
    /\ UNCHANGED <<showInactive, server, grid, charts, historyChart, consumptionCall>>
    /\ UNCHANGED engineVars
    /\ UNCHANGED deviceVars
    /\ UNCHANGED pageVars

\* loadBottles after the await, with the response
LoadBottlesRenders ==
    /\ \E r \in DOMAIN pending :
         /\ pending[r].state = "ok"
         /\ pending' = Without(pending, r)
         /\ LET bottles == pending[r].data
                bottlesToDisplay == filterItemsByVisibility(showInactive, bottles)
                forChart == activeBottlesForChart(bottlesToDisplay)
            IN  IF Len(bottlesToDisplay) = 0
                THEN /\ grid' = Grid("empty", <<>>)
                     /\ charts' = destroyAllCharts(charts)
                     /\ UNCHANGED historyChart
                     /\ consumptionCall' =
                          [made |-> FALSE, fetched |-> bottles,
                           showInactive |-> showInactive, bottles |-> <<>>]
                ELSE /\ grid' = Grid("cards",
                                     [i \in DOMAIN bottlesToDisplay |->
                                         createBottleCard(bottlesToDisplay[i])])
                     /\ charts' = createConsumptionChart(charts, forChart)
                     /\ historyChart' = createBottleHistoryChart(
                            activeBottlesWithHistory(showInactive, bottlesToDisplay))
                     /\ consumptionCall' =
                          [made |-> TRUE, fetched |-> bottles,
                           showInactive |-> showInactive, bottles |-> forChart]
    /\ UNCHANGED <<showInactive, server>>
    /\ UNCHANGED engineVars
    /\ UNCHANGED deviceVars
    /\ UNCHANGED pageVars

\* loadBottles after the await, with the rejection
LoadBottlesFails ==
    /\ \E r \in DOMAIN pending :
         /\ pending[r].state = "failed"
         /\ pending' = Without(pending, r)
    /\ grid' = Grid("error", <<>>)
    /\ charts' = destroyAllCharts(charts)
    /\ consumptionCall' = NoConsumptionCall
    /\ UNCHANGED <<showInactive, server, historyChart>>
    /\ UNCHANGED engineVars
    /\ UNCHANGED deviceVars
    /\ UNCHANGED pageVars

ViewNext ==
    \/ ToggleInactiveBottleVisibility
    \/ ToggleBottleActiveStatus
    \/ GetBottlesSucceeds
    \/ GetBottlesFails
    \/ LoadBottlesRenders
    \/ LoadBottlesFails

SpecView == ViewInit /\ [][ViewNext]_vars

\* ------------------------------------------------------------------------
\* The device page: the trend chart for the selected year
\* ------------------------------------------------------------------------
\* DeviceManager.init on a backend with any devices: the chart of the
\* current year is rendered
TrendInit ==
    /\ item = Device(1, TRUE, Missing)
    /\ call = NoCall
    /\ server = [id \in BottleIds |-> "active"]
    /\ PageLoaded
    /\ UiLoaded
    /\ devices \in DeviceLists
    /\ currentStatsYear = Number(2024)
    /\ operationsLine = renderMonthlyTrendChart(devices, currentStatsYear)

\* change of #stats-year-filter (the event of a selection that differs from
\* the one before): the year is set and the chart rendered anew
ChangeStatsYear ==
    /\ \E year \in StatsYears :
         /\ year # currentStatsYear
         /\ currentStatsYear' = year
         /\ operationsLine' = renderMonthlyTrendChart(devices, year)
    /\ UNCHANGED devices
    /\ UNCHANGED engineVars
    /\ UNCHANGED viewVars
    /\ UNCHANGED pageVars

TrendNext == ChangeStatsYear

SpecTrend == TrendInit /\ [][TrendNext]_vars

\* ------------------------------------------------------------------------
\* Transport calls under way, and the deletion of an item
\* ------------------------------------------------------------------------
ApiInit ==
    /\ item = Device(1, TRUE, Missing)
    /\ call = NoCall
    /\ server = [id \in BottleIds |-> "active"]
    /\ PageLoaded
    /\ DevicePageLoaded
    /\ UiLoaded

\* a caller (a load, a save, one of the reloads of the year filter) calls
\* the transport while other calls may be under way
StartRequest ==
    /\ \E slot \in Slots, transport \in Transports :
         /\ calls[slot].pc \in { "idle", "done" }
         /\ deletion.slot # slot
         /\ calls' = [calls EXCEPT ![slot] = startRequest(transport)]
         /\ spinner' = showLoading(spinner, startRequest(transport).log)
    /\ UNCHANGED deletion
    /\ UNCHANGED <<engineVars, viewVars, deviceVars, widgetVars>>

\* fetch settles
FetchSettles ==
    /\ \E slot \in Slots, kind \in ResponseKinds :
         /\ calls[slot].pc = "fetch"
         /\ calls' = [calls EXCEPT ![slot] = afterFetch(@, kind)]
         /\ spinner' = showLoading(spinner,
                                   Appended(calls[slot], afterFetch(calls[slot], kind)))
    /\ UNCHANGED deletion
    /\ UNCHANGED <<engineVars, viewVars, deviceVars, widgetVars>>

\* response.text() settles
TextSettles ==
    /\ \E slot \in Slots, readable \in BOOLEAN :
         /\ calls[slot].pc = "text"
         /\ calls' = [calls EXCEPT ![slot] = afterText(@, readable)]
         /\ spinner' = showLoading(spinner,
                                   Appended(calls[slot], afterText(calls[slot], readable)))
    /\ UNCHANGED deletion
    /\ UNCHANGED <<engineVars, viewVars, deviceVars, widgetVars>>

\* response.json() settles
JsonSettles ==
    /\ \E slot \in Slots, parsed \in BOOLEAN :
         /\ calls[slot].pc = "json"
         /\ calls' = [calls EXCEPT ![slot] = afterJson(@, parsed)]
         /\ spinner' = showLoading(spinner,
                                   Appended(calls[slot], afterJson(calls[slot], parsed)))
    /\ UNCHANGED deletion
    /\ UNCHANGED <<engineVars, viewVars, deviceVars, widgetVars>>

\* click on confirm for a deletion: try { UI.showLoading(true);
\* await deleteFunction(itemId)
ConfirmDeletion ==
    /\ deletion.pc = "idle"
    /\ \E slot \in Slots, transport \in Transports :
         /\ calls[slot].pc \in { "idle", "done" }
         /\ calls' = [calls EXCEPT ![slot] = startRequest(transport)]
         /\ deletion' = [pc |-> "awaiting", slot |-> slot]
         /\ spinner' = showLoading(showLoading(spinner, << "showLoading(true)" >>),
                                   startRequest(transport).log)
    /\ UNCHANGED <<engineVars, viewVars, deviceVars, widgetVars>>

\* deleteFunction has settled: on success the toast and reloadFunction(),
\* whose transport call starts at once and is not awaited, on failure the
\* error toast; finally { UI.showLoading(false) }
DeletionContinues ==
    /\ deletion.pc = "awaiting"
    /\ calls[deletion.slot].pc = "done"
    /\ IF calls[deletion.slot].result # "rejected"
       THEN \E transport \in Transports :
              /\ calls' = [calls EXCEPT ![deletion.slot] = startRequest(transport)]
              /\ spinner' = showLoading(showLoading(spinner, startRequest(transport).log),
                                        << "showLoading(false)" >>)
       ELSE /\ UNCHANGED calls
            /\ spinner' = showLoading(spinner, << "showLoading(false)" >>)
    /\ deletion' = NoDeletion
    /\ UNCHANGED <<engineVars, viewVars, deviceVars, widgetVars>>

ApiNext ==
    \/ StartRequest
    \/ FetchSettles
    \/ TextSettles
    \/ JsonSettles
    \/ ConfirmDeletion
    \/ DeletionContinues

SpecApi == ApiInit /\ [][ApiNext]_vars

\* ------------------------------------------------------------------------
\* The charts of ChartManager, created and destroyed in any order
\* ------------------------------------------------------------------------
ChartsInit ==
    /\ item = Device(1, TRUE, Missing)
    /\ call = NoCall
    /\ server = [id \in BottleIds |-> "active"]
    /\ PageLoaded
    /\ DevicePageLoaded
    /\ spinner = FALSE
    /\ calls = [slot \in Slots |-> NoRequest]
    /\ deletion = NoDeletion
    /\ canvasIds \in SUBSET Canvases
    /\ chartManager = NewChartManager
    /\ deleteModal = ModalHidden
    /\ journal = <<>>

\* createLineChart(canvasId, chartName, ...), from any load or reload
CreateLineChart ==
    /\ Len(chartManager.created) < MaxCharts
    /\ \E managed \in ManagedCharts :
         chartManager' = createChart(chartManager, "line", managed.canvasId,
                                     managed.chartName, canvasIds)
    /\ UNCHANGED <<engineVars, viewVars, deviceVars, uiVars, canvasIds, modalVars>>

\* createBarChart(canvasId, chartName, ...), from any load or reload
CreateBarChart ==
    /\ Len(chartManager.created) < MaxCharts
    /\ \E managed \in ManagedCharts :
         chartManager' = createChart(chartManager, "bar", managed.canvasId,
                                     managed.chartName, canvasIds)
    /\ UNCHANGED <<engineVars, viewVars, deviceVars, uiVars, canvasIds, modalVars>>

\* destroyChart(chartName)
DestroyChart ==
    /\ \E chartName \in ManagedNames :
         chartManager' = destroyChart(chartManager, chartName)
    /\ UNCHANGED <<engineVars, viewVars, deviceVars, uiVars, canvasIds, modalVars>>

\* destroyAllCharts()
DestroyAllCharts ==
    /\ chartManager' = destroyEveryChart(chartManager)
    /\ UNCHANGED <<engineVars, viewVars, deviceVars, uiVars, canvasIds, modalVars>>

ChartsNext ==
    \/ CreateLineChart
    \/ CreateBarChart
    \/ DestroyChart
    \/ DestroyAllCharts

SpecCharts == ChartsInit /\ [][ChartsNext]_vars

\* ------------------------------------------------------------------------
\* The confirmation modal in use
\* ------------------------------------------------------------------------
ModalInit ==
    /\ item = Device(1, TRUE, Missing)
    /\ call = NoCall
    /\ server = [id \in BottleIds |-> "active"]
    /\ PageLoaded
    /\ DevicePageLoaded
    /\ UiLoaded

\* a click on the delete or the (de)activate button of a card: deleteItem or
\* toggleActiveStatus calls showConfirmModal with its callback
ShowConfirmModal ==
    /\ Len(journal) < MaxEvents
    /\ \E onConfirm \in Callbacks :
         /\ deleteModal' = showConfirmModal(deleteModal, onConfirm)
         /\ journal' = Append(journal,
                              Event("showConfirmModal", onConfirm.method, onConfirm.id))
    /\ UNCHANGED <<engineVars, viewVars, deviceVars, uiVars, chartVars>>

\* a click on the confirm button of the shown modal: every listener runs
\* its callback and hides the modal
ClickConfirm ==
    /\ deleteModal.active
    /\ Len(journal) + 1 < MaxEvents
    /\ journal' = journal \o << Event("confirm", "", 0) >>
                          \o requestsOf(deleteModal.confirmListeners)
    /\ deleteModal' = hideModal(deleteModal)
    /\ UNCHANGED <<engineVars, viewVars, deviceVars, uiVars, chartVars>>

\* a click on the cancel button of the shown modal
ClickCancel ==
    /\ deleteModal.active
    /\ Len(journal) < MaxEvents
    /\ journal' = Append(journal, Event("cancel", "", 0))
    /\ deleteModal' = hideModal(deleteModal)
    /\ UNCHANGED <<engineVars, viewVars, deviceVars, uiVars, chartVars>>

\* a click on the close button in the header of the shown modal: its
\* listeners, added with { once: true }, hide the modal and are removed
ClickClose ==
    /\ deleteModal.active
    /\ Len(journal) < MaxEvents
    /\ journal' = Append(journal, Event("close", "", 0))
    /\ deleteModal' = IF deleteModal.closeListeners > 0
                      THEN [hideModal(deleteModal) EXCEPT !.closeListeners = 0]
                      ELSE deleteModal
    /\ UNCHANGED <<engineVars, viewVars, deviceVars, uiVars, chartVars>>

ModalNext ==
    \/ ShowConfirmModal
    \/ ClickConfirm
    \/ ClickCancel
    \/ ClickClose

SpecModal == ModalInit /\ [][ModalNext]_vars

\* ------------------------------------------------------------------------
\* Vocabulary of the properties
\* ------------------------------------------------------------------------
\* a weight as a whole number of quarter kilograms
Quarter(x) == (x.n * 4) \div x.d

\* the tenths p/10 is num/den (den > 0) rounded to one decimal: no tenth is
\* nearer, and of two equally near tenths it is the one further from zero
IsTenthOf(p, num, den) ==
    LET err == Abs(10 * num - p * den)
    IN  /\ 2 * err <= den
        /\ (2 * err = den => Abs(p) * den > 10 * Abs(num))

\* the number r is num/den rounded to one decimal
IsRounded(r, num, den) ==
    /\ IsFinite(r)
    /\ 10 % r.d = 0
    /\ IsTenthOf(r.n * (10 \div r.d), num, den)

\* the toFixed(1) string s is num/den rounded to one decimal
ShowsRounded(s, num, den) ==
    /\ s.special = ""
    /\ IsTenthOf((IF s.neg THEN -1 ELSE 1) * (s.int * 10 + s.frac), num, den)
    /\ (s.neg => num < 0)

\* minutes from 2023-12-30 00:00 to a sample timestamp
MinuteOf(t) ==
    LET day == IF t.y = 2023 THEN t.d - 30 ELSE t.d + 1
    IN  (day * 24 + t.h) * 60 + t.mi

NoOperations(it) == ~it.operations.present \/ it.operations.list = <<>>
OpsOf(it) == it.operations.list

RECURSIVE SumOver(_, _)
SumOver(f, S) ==
    IF S = {} THEN 0
    ELSE LET i == CHOOSE j \in S : TRUE IN f[i] + SumOver(f, S \ {i})

\* whole minutes of the operations at the positions S of a device's list
MinutesOfPositions(it, S) ==
    SumOver([i \in S |-> MinuteOf(OpsOf(it)[i].end_time) - MinuteOf(OpsOf(it)[i].start_time)], S)

\* the positions of the operations whose start_time lies in the year y
StartsIn(it, y) ==
    { i \in 1..Len(OpsOf(it)) :
        OpsOf(it)[i].start_time # undefined /\ OpsOf(it)[i].start_time.y = y }

\* the sub-list of a list at the positions S, in list order
RECURSIVE Pick(_, _, _)
Pick(list, S, i) ==
    IF i > Len(list) THEN <<>>
    ELSE (IF i \in S THEN <<list[i]>> ELSE <<>>) \o Pick(list, S, i + 1)

YearNumbers == { 2023, 2024, 2025 }

\* ------------------------------------------------------------------------
\* Properties
\* ------------------------------------------------------------------------

\* C1: calculateBottleStats returns remainingPercentage =
\* (currentWeight - filling_weight) / (initial_weight - filling_weight) * 100
\* rounded to one decimal when initial_weight - filling_weight > 0 and exactly
\* 0 otherwise; the result is never NaN or Infinity.
C1_RemainingPercentage ==
    call.fn = "calculateBottleStats" =>
        LET iw == Quarter(item.initial_weight)
            fw == Quarter(item.filling_weight)
            cw == Quarter(call.out.currentWeight)
            r == call.out.remainingPercentage
        IN  /\ IsFinite(r)
            /\ IF iw - fw > 0 THEN IsRounded(r, (cw - fw) * 100, iw - fw)
               ELSE r = Number(0)

\* a bottle whose initial weight equals its filling weight, measured at a
\* different weight: the quotient would be a division by zero
C1_Witness ==
    /\ call.fn = "calculateBottleStats"
    /\ item.initial_weight = item.filling_weight
    /\ call.out.currentWeight # item.filling_weight
    /\ call.out.remainingPercentage = Number(0)

\* C2: calculateBottleStats sets currentWeight to the weight of an operation
\* with the latest date, whatever the order of the operations, and to
\* initial_weight when the bottle has no operations (missing or empty).
C2_CurrentWeight ==
    call.fn = "calculateBottleStats" =>
        IF NoOperations(item) THEN call.out.currentWeight = item.initial_weight
        ELSE \E i \in 1..Len(OpsOf(item)) :
                /\ call.out.currentWeight = OpsOf(item)[i].weight
                /\ \A j \in 1..Len(OpsOf(item)) :
                      MinuteOf(OpsOf(item)[j].date) <= MinuteOf(OpsOf(item)[i].date)

\* the latest measurement is not the first one of the list
C2_Witness ==
    /\ call.fn = "calculateBottleStats"
    /\ ~NoOperations(item)
    /\ Len(OpsOf(item)) = 2
    /\ MinuteOf(OpsOf(item)[1].date) < MinuteOf(OpsOf(item)[2].date)
    /\ OpsOf(item)[1].weight # OpsOf(item)[2].weight
    /\ call.out.currentWeight = OpsOf(item)[2].weight

\* C3, as stated: bottleWeight = initial_weight - filling_weight, totalUsedGas
\* = initial_weight - currentWeight and remainingGasKg = currentWeight -
\* filling_weight; without operations totalUsedGas = 0, remainingGasKg =
\* initial_weight - filling_weight and remainingPercentage = 100.
C3_AsStated ==
    call.fn = "calculateBottleStats" =>
        LET cw == call.out.currentWeight
        IN  /\ call.out.bottleWeight = NumSub(item.initial_weight, item.filling_weight)
            /\ parseFloat(call.out.totalUsedGas) = NumSub(item.initial_weight, cw)
            /\ parseFloat(call.out.remainingGasKg) = NumSub(cw, item.filling_weight)
            /\ NoOperations(item) =>
                  /\ parseFloat(call.out.totalUsedGas) = Number(0)
                  /\ parseFloat(call.out.remainingGasKg)
                        = NumSub(item.initial_weight, item.filling_weight)
                  /\ call.out.remainingPercentage = Number(100)

\* C3, amended: bottleWeight = initial_weight - filling_weight; totalUsedGas
\* and remainingGasKg are initial_weight - currentWeight and currentWeight -
\* filling_weight rounded to one decimal; without operations totalUsedGas is
\* 0, remainingGasKg is initial_weight - filling_weight rounded to one decimal
\* and remainingPercentage is 100 when initial_weight > filling_weight (and 0
\* otherwise); 20 and 12 give 20, 8, 0, 8 and 100.
C3_GasAmounts ==
    call.fn = "calculateBottleStats" =>
        LET iw == Quarter(item.initial_weight)
            fw == Quarter(item.filling_weight)
            cw == Quarter(call.out.currentWeight)
        IN  /\ Quarter(call.out.bottleWeight) = iw - fw
            /\ ShowsRounded(call.out.totalUsedGas, iw - cw, 4)
            /\ ShowsRounded(call.out.remainingGasKg, cw - fw, 4)
            /\ NoOperations(item) =>
                  /\ parseFloat(call.out.totalUsedGas) = Number(0)
                  /\ ShowsRounded(call.out.remainingGasKg, iw - fw, 4)
                  /\ call.out.remainingPercentage
                        = IF iw > fw THEN Number(100) ELSE Number(0)
            /\ (item = Bottle(1, TRUE, Number(20), Number(12), Present(<<>>)) =>
                  /\ call.out.currentWeight = Number(20)
                  /\ call.out.bottleWeight = Number(8)
                  /\ parseFloat(call.out.totalUsedGas) = Number(0)
                  /\ parseFloat(call.out.remainingGasKg) = Number(8)
                  /\ call.out.remainingPercentage = Number(100))

\* a quarter kilogram used: the amount is shown as 0.3
C3_Witness ==
    /\ call.fn = "calculateBottleStats"
    /\ Quarter(item.initial_weight) - Quarter(call.out.currentWeight) = 1
    /\ parseFloat(call.out.totalUsedGas) = Num(3, 10)

\* C4: calculateTotalDuration returns the sum over all operations of
\* (end_time - start_time) in minutes, 0 for an empty or missing list, and 30
\* for a single operation from 10:00 to 10:30.
C4_TotalDuration ==
    call.fn = "calculateTotalDuration" =>
        /\ NoOperations(item) => call.out = Number(0)
        /\ item.kind = "device" =>
              call.out = Number(MinutesOfPositions(item, DOMAIN OpsOf(item)))
        /\ (item.operations = Present(<<DeviceOp(1, Time(2024, 1, 2, 10, 0),
                                                  Time(2024, 1, 2, 10, 30))>>)
              => call.out = Number(30))

\* two operations of different, non-zero lengths have been added up
C4_Witness ==
    /\ call.fn = "calculateTotalDuration"
    /\ item.kind = "device"
    /\ ~NoOperations(item)
    /\ Len(OpsOf(item)) = 2
    /\ MinutesOfPositions(item, {1}) = 30
    /\ MinutesOfPositions(item, {2}) > 30
    /\ call.out = Number(30 + MinutesOfPositions(item, {2}))

RECURSIVE SumMonths(_, _)
SumMonths(monthly, m) ==
    IF m > 11 THEN Number(0) ELSE NumAdd(monthly[m], SumMonths(monthly, m + 1))

\* C5: the 12 monthly values of calculateMonthlyStats(ops, year), summed and
\* multiplied by 60, equal calculateTotalDuration(filterOperationsByYear(ops,
\* year)); every operation starting in that year is counted once, in the
\* bucket of its start month (January = 0), and the others in no bucket.
C5_MonthlySum ==
    call.fn = "calculateMonthlyStats" =>
        /\ NumMul(SumMonths(call.out, 0), Number(60))
              = calculateTotalDuration(
                    Present(filterOperationsByYear(item.operations, call.year)))
        /\ DOMAIN call.out = 0..11
        /\ item.kind = "device" =>
              \A m \in 0..11 :
                 call.out[m] =
                    Num(MinutesOfPositions(item,
                            { i \in DOMAIN OpsOf(item) :
                                /\ call.year.type = "number"
                                /\ Number(OpsOf(item)[i].start_time.y) = call.year.num
                                /\ OpsOf(item)[i].start_time.mo = m + 1 }),
                        60)

\* an operation that starts in December 2023 and ends in 2024 is counted in
\* bucket 11 of 2023, beside an operation of 2024 that is left out
C5_Witness ==
    /\ call.fn = "calculateMonthlyStats"
    /\ call.year = YearNum(2023)
    /\ item.kind = "device"
    /\ ~NoOperations(item)
    /\ Len(OpsOf(item)) = 2
    /\ OpsOf(item)[1].start_time = Time(2023, 12, 31, 23, 45)
    /\ OpsOf(item)[1].end_time = Time(2024, 1, 2, 10, 0)
    /\ OpsOf(item)[2].start_time = Time(2024, 1, 2, 10, 0)
    /\ OpsOf(item)[2].end_time = Time(2024, 1, 2, 10, 30)
    /\ call.out[11] = Num(2055, 60)
    /\ call.out[0] = Number(0)

\* the primary timestamp of an operation: start_time of a device operation,
\* date of a bottle operation
PrimaryTimestamp(op) == IF op.start_time # undefined THEN op.start_time ELSE op.date

\* C6, as stated: filterOperationsByYear returns exactly the operations whose
\* primary timestamp lies in the calendar year, for device operations
\* (start_time) and bottle operations (date) alike.
C6_AsStated ==
    (call.fn = "filterOperationsByYear" /\ call.year.type = "number") =>
        call.out = Pick(OpsOf(item),
                        { i \in DOMAIN OpsOf(item) :
                            Number(PrimaryTimestamp(OpsOf(item)[i]).y) = call.year.num },
                        1)

\* C6, amended: filterOperationsByYear returns, in input order, exactly the
\* operations whose start_time lies in the calendar year given as a number;
\* an operation without start_time (a bottle operation, which has a date
\* only) is never returned, and nothing is returned for a missing list.
C6_FilterByStartTime ==
    call.fn = "filterOperationsByYear" =>
        call.out = Pick(OpsOf(item),
                        { i \in DOMAIN OpsOf(item) :
                            /\ call.year.type = "number"
                            /\ OpsOf(item)[i].start_time # undefined
                            /\ Number(OpsOf(item)[i].start_time.y) = call.year.num },
                        1)

\* of two device operations the one of 2023 is returned and the one of 2024
\* is not
C6_Witness ==
    /\ call.fn = "filterOperationsByYear"
    /\ call.year = YearNum(2023)
    /\ item.kind = "device"
    /\ ~NoOperations(item)
    /\ Len(OpsOf(item)) = 2
    /\ OpsOf(item)[1].start_time.y = 2024
    /\ OpsOf(item)[2].start_time.y = 2023
    /\ call.out = <<OpsOf(item)[2]>>

\* the operation at position i starts last, and before it none starts as late
IsFirstLatest(list, i) ==
    /\ \A j \in DOMAIN list : MinuteOf(list[j].start_time) <= MinuteOf(list[i].start_time)
    /\ \A j \in 1..(i - 1) : MinuteOf(list[j].start_time) < MinuteOf(list[i].start_time)

\* C7, as stated: calculateDeviceStats(device, year) returns operationsCount,
\* totalDuration, lastOperation and filteredOperations over exactly the
\* device's operations of that year, and over all of its operations when
\* year is "all".
C7_DeviceStats ==
    call.fn = "calculateDeviceStats" =>
        LET S == IF call.year = YearStr("all") THEN DOMAIN OpsOf(item)
                 ELSE StartsIn(item, call.year.num.n)
            selected == Pick(OpsOf(item), S, 1)
        IN  /\ call.out.filteredOperations = selected
            /\ call.out.operationsCount = Cardinality(S)
            /\ call.out.totalDuration = Number(MinutesOfPositions(item, S))
            /\ IF S = {} THEN call.out.lastOperation.isNull
               ELSE /\ ~call.out.lastOperation.isNull
                    /\ \E i \in DOMAIN selected :
                          /\ call.out.lastOperation.op = selected[i]
                          /\ IsFirstLatest(selected, i)

NewestWeight(b) ==
    LET list == b.operations.list
        i == CHOOSE k \in DOMAIN list :
                \A j \in DOMAIN list : MinuteOf(list[j].date) <= MinuteOf(list[k].date)
    IN  list[i].weight

\* C10: the consumption series loadBottles hands to the consumption chart has
\* exactly one {id, percentage} entry for each active bottle that was fetched
\* and none for an inactive bottle, with the show-inactive flag on or off;
\* percentage is the bottle's remaining percentage rounded to one decimal.
C10_ConsumptionSeries ==
    consumptionCall.made =>
        LET fetched == consumptionCall.fetched
            series == consumptionCall.bottles
        IN  /\ \A i \in DOMAIN fetched :
                  Cardinality({ k \in DOMAIN series : series[k].id = fetched[i].id })
                     = IF fetched[i].active THEN 1 ELSE 0
            /\ \A k \in DOMAIN series :
                  \E i \in DOMAIN fetched :
                     /\ fetched[i].id = series[k].id
                     /\ LET iw == Quarter(fetched[i].initial_weight)
                            fw == Quarter(fetched[i].filling_weight)
                            cw == Quarter(NewestWeight(fetched[i]))
                        IN  IF iw - fw > 0
                            THEN IsRounded(series[k].percentage, (cw - fw) * 100, iw - fw)
                            ELSE series[k].percentage = Number(0)

\* inactive bottles are shown, an active and an inactive bottle were fetched:
\* the series has the active one only
C10_Witness ==
    /\ consumptionCall.made
    /\ consumptionCall.showInactive
    /\ Len(consumptionCall.fetched) = 2
    /\ \E i, j \in DOMAIN consumptionCall.fetched :
          /\ consumptionCall.fetched[i].active
          /\ ~consumptionCall.fetched[j].active
          /\ Len(consumptionCall.bottles) = 1
          /\ consumptionCall.bottles[1].id = consumptionCall.fetched[i].id
    /\ Len(grid.cards) = 2

\* the band a bar's colour stands for (the colours of updateConsumptionChart)
BandOfColor(color) ==
    IF color = "rgba(46, 204, 113, 0.8)" THEN "ok"
    ELSE IF color = "rgba(243, 156, 18, 0.8)" THEN "warn"
    ELSE IF color = "rgba(231, 76, 60, 0.8)" THEN "critical"
    ELSE "none"

\* the band of a percentage: 50 and more "ok", 20 and more "warn", else "critical"
BandOfPercentage(p) ==
    IF NumGE(p, Number(50)) THEN "ok"
    ELSE IF NumGE(p, Number(20)) THEN "warn"
    ELSE "critical"

\* C11: every bar of the consumption chart is banded by its percentage p:
\* p >= 50 is "ok", 20 <= p < 50 is "warn", p < 20 is "critical"; the band
\* depends on the percentage only, not on the bar's position.
C11_Banding ==
    LET chart == charts["consumption"]
    IN  chart.alive =>
            \A k \in DOMAIN chart.data :
                BandOfColor(chart.colors[k]) = BandOfPercentage(chart.data[k])

\* seconds from 2023-12-30 00:00 to a sample timestamp
SecondOf(t) == MinuteOf(t) * 60 + t.s

\* the hundredths h/100 is num/den (den > 0) rounded to two decimals
IsHundredthOf(h, num, den) ==
    LET err == Abs(100 * num - h * den)
    IN  /\ 2 * err <= den
        /\ (2 * err = den => Abs(h) * den > 100 * Abs(num))

\* a plotted value as a whole number of hundredths
Hundredths(v) == (v.n * 100) \div v.d

\* the seconds a device ran in a month (0 for January) of the year y, by the
\* start of its operations
MonthSeconds(device, y, month) ==
    IF NoOperations(device) THEN 0
    ELSE LET S == { i \in 1..Len(OpsOf(device)) :
                      /\ OpsOf(device)[i].start_time.y = y
                      /\ OpsOf(device)[i].start_time.mo = month + 1 }
         IN  SumOver([i \in S |-> SecondOf(OpsOf(device)[i].end_time)
                                    - SecondOf(OpsOf(device)[i].start_time)], S)

\* the series of the trend chart that carry the device's label
SeriesOf(device) ==
    { k \in DOMAIN operationsLine.datasets : operationsLine.datasets[k].label = device.id }

PlottedHundredths ==
    { Hundredths(operationsLine.datasets[k].data[month]) :
        k \in DOMAIN operationsLine.datasets, month \in 0..11 }

\* C13: the step size of the hour axis follows the maximum m of the plotted
\* values: m <= 0.1 gives 0.02, 0.1 < m <= 1 gives 0.1, 1 < m <= 5 gives 0.5,
\* 5 < m <= 10 gives 1, m > 10 gives ceil(m / 8); it is positive in every
\* case, also when no series is plotted.
C13_StepSize ==
    operationsLine.alive =>
        LET step == operationsLine.stepSize
        IN  /\ IsFinite(step) /\ step.n > 0
            /\ PlottedHundredths # {} =>
                 LET m == CHOOSE h \in PlottedHundredths :
                             \A g \in PlottedHundredths : g <= h
                 IN  IF m <= 10 THEN step = Num(2, 100)
                     ELSE IF m <= 100 THEN step = Num(1, 10)
                     ELSE IF m <= 500 THEN step = Num(1, 2)
                     ELSE IF m <= 1000 THEN step = Number(1)
                     ELSE /\ step.d = 1
                          /\ 800 * (step.n - 1) < m
                          /\ m <= 800 * step.n

\* a device that ran 16 2/3 hours in January 2024: the step size is
\* ceil(16.67 / 8) = 3
C13_Witness ==
    /\ operationsLine.alive
    /\ \E k \in DOMAIN operationsLine.datasets :
          operationsLine.datasets[k].data[0] = Num(1667, 100)
    /\ \A h \in PlottedHundredths : h <= 1667
    /\ operationsLine.stepSize = Number(3)

\* the fetched bottle that a dataset of the history chart belongs to
FetchedBottle(id) ==
    consumptionCall.fetched[CHOOSE i \in DOMAIN consumptionCall.fetched :
                               consumptionCall.fetched[i].id = id]

\* the points a dataset plots, in the order of its data array: the weight at
\* a label of the axis, or an {x, y} object
RECURSIVE PointsFrom(_, _, _)
PointsFrom(data, labels, i) ==
    IF i > Len(data) THEN <<>>
    ELSE (IF data[i].kind = "number" THEN << [x |-> labels[i], y |-> data[i].y] >>
          ELSE IF data[i].kind = "point" THEN << [x |-> data[i].x, y |-> data[i].y] >>
          ELSE <<>>) \o PointsFrom(data, labels, i + 1)

\* the operations at the positions S as points (date, weight), oldest first
RECURSIVE OperationPoints(_, _)
OperationPoints(list, S) ==
    IF S = {} THEN <<>>
    ELSE LET i == CHOOSE k \in S :
                    \A j \in S : /\ MinuteOf(list[k].date) <= MinuteOf(list[j].date)
                                 /\ (MinuteOf(list[k].date) = MinuteOf(list[j].date) => k <= j)
         IN  << [x |-> DateLabel(list[i].date.d, list[i].date.mo, list[i].date.y),
                 y |-> list[i].weight] >> \o OperationPoints(list, S \ {i})

\* C14: for each bottle the weight-history series begins with the point
\* (purchase_date, initial_weight), followed by exactly one point
\* (date, weight) for each operation in ascending date order; it has no
\* other points, and no operation's point replaces the purchase point.
C14_HistorySeries ==
    (consumptionCall.made /\ historyChart.alive) =>
        \A k \in DOMAIN historyChart.data :
            LET bottle == FetchedBottle(historyChart.data[k].id)
                purchase == bottle.purchase_date
            IN  PointsFrom(historyChart.data[k].data, historyChart.labels, 1)
                  = << [x |-> DateLabel(purchase.d, purchase.mo, purchase.y),
                        y |-> bottle.initial_weight] >>
                    \o OperationPoints(OpsOf(bottle), DOMAIN OpsOf(bottle))

\* the dates of the plotted bottles: purchase dates and operation dates
PlottedDates ==
    UNION { { FetchedBottle(historyChart.data[k].id).purchase_date }
            \cup { OpsOf(FetchedBottle(historyChart.data[k].id))[i].date :
                      i \in DOMAIN OpsOf(FetchedBottle(historyChart.data[k].id)) }
            : k \in DOMAIN historyChart.data }

\* the label a comes before the label b in time
LabelBefore(a, b) ==
    \/ a.year < b.year
    \/ a.year = b.year /\ a.month < b.month
    \/ a.year = b.year /\ a.month = b.month /\ a.day < b.day

\* C15: the x-axis of the weight-history chart is the union of the purchase
\* dates and operation dates of all plotted bottles, each date label once, in
\* ascending chronological order.
C15_HistoryAxis ==
    (consumptionCall.made /\ historyChart.alive) =>
        LET labels == historyChart.labels
        IN  /\ { labels[i] : i \in DOMAIN labels }
                 = { DateLabel(t.d, t.mo, t.y) : t \in PlottedDates }
            /\ \A i, j \in DOMAIN labels : i < j => LabelBefore(labels[i], labels[j])

\* two bottles are plotted; 30.12.2023 is a date of both and 02.01.2024 and
\* 04.01.2024 of one each: the axis has the four dates, the new year last
C15_Witness ==
    /\ consumptionCall.made /\ historyChart.alive
    /\ Len(historyChart.data) = 2
    /\ historyChart.labels =
         << DateLabel(28, 12, 2023), DateLabel(30, 12, 2023),
            DateLabel(2, 1, 2024), DateLabel(4, 1, 2024) >>

\* C16: an operation whose end_time lies before its start_time is rejected
\* or counted as 0: the total duration returned by calculateTotalDuration
\* and the monthly buckets returned by calculateMonthlyStats are never
\* negative.
C16_NonNegative ==
    /\ call.fn = "calculateTotalDuration" => call.out.n >= 0
    /\ call.fn = "calculateMonthlyStats" => \A m \in 0..11 : call.out[m].n >= 0

\* C17: for an empty or missing operations collection every engine function
\* returns its zero or empty result: calculateTotalDuration 0,
\* filterOperationsByYear an empty list, getLastOperation null,
\* calculateMonthlyStats twelve zeros, extractUniqueYears an empty list,
\* calculateDeviceStats count 0, duration 0 and no last operation,
\* calculateBottleStats operationsCount 0.
C17_EmptyOperations ==
    NoOperations(item) =>
        /\ call.fn = "calculateTotalDuration" => call.out = Number(0)
        /\ call.fn = "filterOperationsByYear" => call.out = <<>>
        /\ call.fn = "getLastOperation" => call.out.isNull
        /\ call.fn = "calculateMonthlyStats" =>
              /\ DOMAIN call.out = 0..11
              /\ \A m \in 0..11 : call.out[m] = Number(0)
        /\ call.fn = "extractUniqueYears" => call.out = <<>>
        /\ call.fn = "calculateDeviceStats" =>
              /\ call.out.operationsCount = 0
              /\ call.out.totalDuration = Number(0)
              /\ call.out.lastOperation.isNull
              /\ call.out.filteredOperations = <<>>
        /\ call.fn = "calculateBottleStats" => call.out.operationsCount = 0

\* calculateDeviceStats was called on a device whose operations array is empty
C17_Witness ==
    /\ item.operations = Present(<<>>)
    /\ call.fn = "calculateDeviceStats"
    /\ call.out.operationsCount = 0

\* C18: no statistics function changes its input: a call leaves the item's
\* operations collection with the same elements in the same order and with
\* the same field values.
C18_InputsUnchanged == [][item' = item]_vars

\* getLastOperation was called on two operations of which the second is the
\* later one, so that the sort puts them in another order
C18_Witness ==
    /\ call.fn = "getLastOperation"
    /\ item.operations.present
    /\ Len(item.operations.list) = 2
    /\ MinuteOf(item.operations.list[1].start_time)
          < MinuteOf(item.operations.list[2].start_time)
    /\ call.out.op = item.operations.list[2]

\* the ids of the bottles the list displays
DisplayedIds == { grid.cards[k].id : k \in DOMAIN grid.cards }

\* a load has put its response on the page
ListRendered == grid.state \in { "cards", "empty" }

Before(log, a, b) ==
    \E i \in DOMAIN log : \E j \in DOMAIN log : i < j /\ log[i] = a /\ log[j] = b

\* the event with which the call ended for its caller
Ending(request) == request.log[Len(request.log)]

\* C21: a transport call whose fetch fails or whose response is not ok ends
\* as a rejected call, after the error was reported, and never as a normal
\* result; a 204 or a success without JSON content returns null; every call
\* that has ended has switched the loading indicator off before it ended, and
\* a call that has not ended has no result.
C21_Transport ==
    \A slot \in Slots :
        LET request == calls[slot]
        IN  /\ request.pc # "done" => request.result = "none"
            /\ request.pc = "done" =>
                 /\ Ending(request) \in { "resolved", "rejected" }
                 /\ (Ending(request) = "rejected") = (request.result = "rejected")
                 /\ Before(request.log, "showLoading(false)", Ending(request))
                 /\ request.response \in { "network_error", "not_ok" } =>
                       /\ request.result = "rejected"
                       /\ Before(request.log, "showToast", "rejected")
                 /\ request.response \in { "204", "ok_nonjson" } =>
                       request.result = "null"

\* one call has ended rejected on a response that was not ok, another has
\* returned null on a 204
C21_Witness ==
    \E a \in Slots, b \in Slots :
        /\ calls[a].pc = "done" /\ calls[a].response = "not_ok"
        /\ calls[a].result = "rejected"
        /\ calls[b].pc = "done" /\ calls[b].response = "204"
        /\ calls[b].result = "null"

\* a transport call that has been made and has not ended
UnderWay(request) == request.pc \notin { "idle", "done" }

\* C25: the spinner is shown whenever at least one transport call is under
\* way, also when calls overlap or a deletion wraps its call in its own
\* showLoading(true) / showLoading(false), and it is hidden once every call
\* has ended.
C25_Spinner ==
    /\ (\E slot \in Slots : UnderWay(calls[slot])) => spinner
    /\ ((\A slot \in Slots : ~UnderWay(calls[slot])) /\ deletion.pc = "idle") => ~spinner

\* C22: after destroyAllCharts no chart created through the ChartManager is
\* left undestroyed: when loadBottles has found no bottle to display or has
\* failed, neither a chart of the charts map nor the weight-history chart of
\* an earlier load is alive.
C22_AllDestroyed ==
    grid.state \in { "empty", "error" } =>
        /\ \A name \in ChartNames : ~charts[name].alive
        /\ ~historyChart.alive


\* the Chart objects that are not destroyed
Undestroyed == { index \in DOMAIN chartManager.created :
                   ~chartManager.created[index].destroyed }
\* the Chart objects the map this.charts holds
Stored == { chartManager.charts[name] : name \in ManagedNames } \ { 0 }

\* C23: whatever createLineChart, createBarChart, destroyChart and
\* destroyAllCharts calls were made in whatever order, at most one chart
\* that is not destroyed exists for each chart name and for each canvas, and
\* the map this.charts holds exactly the charts that are not destroyed, each
\* under its own name
C23_OneChartPerName ==
    /\ \A a, b \in Undestroyed :
         (\/ chartManager.created[a].chartName = chartManager.created[b].chartName
          \/ chartManager.created[a].canvasId = chartManager.created[b].canvasId)
             => a = b
    /\ Stored = Undestroyed
    /\ \A name \in ManagedNames :
         chartManager.charts[name] # 0 =>
             chartManager.created[chartManager.charts[name]].chartName = name

\* C23 witness: a chart was replaced under its name by a later one (the
\* earlier is destroyed, the later is stored), and another chart was
\* destroyed without a successor
C23_Witness ==
    /\ \E a, b \in DOMAIN chartManager.created :
         /\ a < b
         /\ chartManager.created[a].chartName = chartManager.created[b].chartName
         /\ chartManager.created[a].destroyed
         /\ chartManager.charts[chartManager.created[b].chartName] = b
    /\ \E name \in ManagedNames :
         /\ chartManager.charts[name] = 0
         /\ \E c \in DOMAIN chartManager.created :
              chartManager.created[c].chartName = name


\* C24: the weight-history chart that loadBottles builds has series for
\* active bottles only, with the show-inactive flag on or off, and they are
\* the bottles of the consumption chart of the same load.
C24_HistoryOfActiveBottles ==
    consumptionCall.made =>
        /\ \A k \in DOMAIN historyChart.data :
             FetchedBottle(historyChart.data[k].id).active
        /\ { historyChart.data[k].id : k \in DOMAIN historyChart.data }
             = { consumptionCall.bottles[k].id : k \in DOMAIN consumptionCall.bottles }


\* C26: once every overlapping loadBottles has completed, the list and the
\* charts show the response of the request that was started last, filtered
\* by the current flag; an earlier request's response never overwrites it.
\* Every change of the backend's bottles or of the flag starts a further
\* request, so the response to the request started last holds the bottles
\* the backend has when all have completed.
C26_LatestResponseShown ==
    (pending = <<>> /\ grid.state \in { "cards", "empty" }) =>
        /\ consumptionCall.fetched = BottlesFrom(server)
        /\ consumptionCall.showInactive = showInactive
        /\ grid.state = "cards" =>
             /\ [k \in DOMAIN grid.cards |-> grid.cards[k].id]
                  = [k \in DOMAIN filterItemsByVisibility(showInactive, BottlesFrom(server)) |->
                        filterItemsByVisibility(showInactive, BottlesFrom(server))[k].id]
             /\ \A k \in DOMAIN grid.cards :
                  grid.cards[k].active = (server[grid.cards[k].id] = "active")


\* C27: for a bottle with initial_weight >= filling_weight >= 0 whose current
\* weight lies between its tare weight initial_weight - filling_weight and
\* initial_weight, calculateBottleStats returns a remainingPercentage from 0
\* to 100 and a remainingGasKg from 0 to filling_weight, never a negative
\* value.
C27_WithinRange ==
    (/\ call.fn = "calculateBottleStats"
     /\ IsFinite(call.out.currentWeight)
     /\ NumGE(item.initial_weight, item.filling_weight)
     /\ NumGE(item.filling_weight, Number(0))
     /\ NumGE(call.out.currentWeight, NumSub(item.initial_weight, item.filling_weight))
     /\ NumLE(call.out.currentWeight, item.initial_weight)) =>
        /\ NumGE(call.out.remainingPercentage, Number(0))
        /\ NumLE(call.out.remainingPercentage, Number(100))
        /\ ~call.out.remainingGasKg.neg
        /\ NumGE(parseFloat(call.out.remainingGasKg), Number(0))
        /\ NumLE(parseFloat(call.out.remainingGasKg), item.filling_weight)


\* the sum of the consumption values (previous weight minus measured
\* weight) of rows, before rounding
RECURSIVE ConsumptionOf(_)
ConsumptionOf(rows) ==
    IF rows = <<>> THEN Number(0)
    ELSE NumAdd(NumSub(Head(rows).previousWeight, Head(rows).weight),
                ConsumptionOf(Tail(rows)))

\* C28: the consumption values of the rows of a bottle in the entries table
\* add up to initial_weight minus the weight of the most recent measurement,
\* the totalUsedGas of calculateBottleStats before rounding, for all weights
\* >= 0.
C28_ConsumptionAddsUp ==
    call.fn = "loadBottleEntries" =>
        ConsumptionOf(call.out)
            = NumSub(item.initial_weight, calculateBottleStats(item).currentWeight)


\* C29: for the most recent measurement of a bottle, the remaining gas in its
\* row of the entries table equals the remainingGasKg that
\* calculateBottleStats returns for the bottle (the value on its card).
C29_SameRemainingGas ==
    (call.fn = "loadBottleEntries" /\ call.out # <<>>) =>
        call.out[1].remainingGas = calculateBottleStats(item).remainingGasKg


\* the call of showConfirmModal that is the most recent one before the
\* position i of the journal (0 if there is none)
LastShownBefore(i) ==
    IF \E j \in 1..(i - 1) : journal[j].type = "showConfirmModal"
    THEN CHOOSE j \in 1..(i - 1) :
            /\ journal[j].type = "showConfirmModal"
            /\ \A k \in (j + 1)..(i - 1) : journal[k].type # "showConfirmModal"
    ELSE 0

\* C30: a delete or (de)activation request is sent only right after a click
\* on the confirm button; however many times showConfirmModal was called
\* before, one click on confirm sends the request of the most recent call
\* only, once, and a click on cancel sends none.
C30_ConfirmedOnly ==
    /\ \A i \in DOMAIN journal :
         journal[i].type = "request" =>
             /\ i > 1
             /\ journal[i - 1].type = "confirm"
             /\ LastShownBefore(i) # 0
             /\ journal[i].method = journal[LastShownBefore(i)].method
             /\ journal[i].id = journal[LastShownBefore(i)].id
    /\ \A i \in DOMAIN journal :
         journal[i].type = "confirm" =>
             /\ i < Len(journal)
             /\ journal[i + 1].type = "request"

\* C30 witness: showConfirmModal was called twice for different items
\* without a click in between, confirm was clicked and the request of the
\* second call was sent; and before that a call was cancelled
C30_Witness ==
    \E i \in DOMAIN journal :
        /\ i > 4
        /\ journal[i].type = "request"
        /\ journal[i - 1].type = "confirm"
        /\ journal[i - 2].type = "showConfirmModal"
        /\ journal[i - 3].type = "showConfirmModal"
        /\ journal[i - 2].id # journal[i - 3].id
        /\ journal[i].id = journal[i - 2].id
        /\ journal[i - 4].type = "cancel"

====
